---- MODULE Spec2Model ----
(***************************************************************************)
(* Site graph (src/temp/site_graph.py) and route discovery                 *)
(* (src/route_discovery.py) of Global-Insight-Tracker.                     *)
(*                                                                         *)
(* A URL string "<scheme>://<host>/<seg>/.../<seg>[/][?<query>][#<frag>]"  *)
(* is the record [scheme, host, segs, slash, query, frag]: host is the     *)
(* sequence of the host's characters, segs the path segments, each         *)
(* [stem, ext] for "stem.ext" (ext "" when the segment has no extension),  *)
(* slash whether the path ends in "/".  A reference without scheme has     *)
(* scheme "", one without host has host <<>>.  NoneUrl, the empty string,  *)
(* also stands for Python's None (the code only tests truthiness).         *)
(* A timestamp is the value of the clock when datetime.now() was called;   *)
(* 0 stands for the empty string.                                          *)
(***************************************************************************)
EXTENDS Integers, Sequences, FiniteSets, TLC

VARIABLES
    graph,          \* the SiteGraph object the caller holds
    disk,           \* the persisted graph document (<<>> when no file exists)
    ret,            \* what the last call on the graph returned
    clock,          \* datetime.now()
    seed,           \* the process' hash order: iteration order of Python sets
    pc,             \* position of the discover_site run
    web,            \* the fetcher's responses, fixed once a URL was fetched
    args,           \* RouteDiscovery's max_depth, max_pages and the call's start_url
    base_url,       \* discover_site's local base_url
    queue,          \* discover_site's frontier: deque of (url, depth, parent_url)
    visited,        \* discover_site's visited set
    pages_visited,  \* discover_site's counter
    fetchlog,       \* the calls of _fetch_page made by the run, in order
    runs,           \* the results of the finished runs, in order
    graphs,         \* SiteGraphRegistry.graphs: dict of key -> SiteGraph
    files,          \* the files of storage_dir: "<slug>.json" -> content
    faulty,         \* the slugs whose file cannot be opened (I/O error)
    writer          \* the save whose file is open for writing (<<>> when none)

gvars == <<graph, disk, ret, clock, seed>>
dvars == <<pc, web, args, base_url, queue, visited, pages_visited, fetchlog, runs>>
rvars == <<graphs, files, faulty, writer>>
vars == <<graph, disk, ret, clock, seed,
          pc, web, args, base_url, queue, visited, pages_visited, fetchlog, runs,
          graphs, files, faulty, writer>>

-----------------------------------------------------------------------------
(* Bounds of the model *)

MaxEdges == 3       \* add_edge calls made by a direct caller
MaxClock == 5       \* a direct caller calls add_node only before this time
MaxRoutes == 2      \* register_report_route calls made by a direct caller
MaxDownloads == 2   \* add_edge calls of a direct caller that record a download

-----------------------------------------------------------------------------
(* Sequences *)

Range(s) == {s[i] : i \in DOMAIN s}

Reverse(s) == [i \in DOMAIN s |-> s[Len(s) + 1 - i]]

Min(a, b) == IF a < b THEN a ELSE b

-----------------------------------------------------------------------------
(* URLs *)

Url(host, segs, slash) ==
    [scheme |-> "https", host |-> host, segs |-> segs, slash |-> slash,
     query |-> "", frag |-> ""]

Seg(stem, ext) == [stem |-> stem, ext |-> ext]

NoneUrl == [Url(<<>>, <<>>, FALSE) EXCEPT !.scheme = ""]

HostE == <<"e", ".", "c">>

UA == Url(HostE, <<>>, FALSE)

UB == Url(HostE, <<Seg("insights", ""), Seg("r1", "")>>, FALSE)

UC == Url(HostE, <<Seg("docs", ""), Seg("a", "pdf")>>, FALSE)

GraphUrls == <<UA, UB, UC>>

\* the keys of TOPIC_KEYWORDS, in the order of the dict
AllTopics ==
    <<"AI", "Quantum", "Blockchain", "Cloud", "Cybersecurity", "IoT", "Data",
      "Digital Transformation", "Automation", "ESG", "Metaverse", "5G", "Edge">>

\* str.rstrip('/') of a URL string
rstrip_slash(u) == [u EXCEPT !.slash = FALSE]

\* The order in which this process iterates a set of URLs or of topics: a
\* function of the strings' hashes, which the seed fixes.
IterUrls(S) == SelectSeq(seed.urls, LAMBDA x : x \in S)

IterTopics(S) == SelectSeq(seed.topics, LAMBDA x : x \in S)

-----------------------------------------------------------------------------
(* NodeType, GraphNode, GraphEdge *)

NodeTypes == {"HOME", "SECTION", "LISTING", "REPORT_PAGE", "DOCUMENT", "UNKNOWN"}

\* NodeType.X.value
NodeTypeValue(t) ==
    CASE t = "HOME" -> "home"
      [] t = "SECTION" -> "section"
      [] t = "LISTING" -> "listing"
      [] t = "REPORT_PAGE" -> "report_page"
      [] t = "DOCUMENT" -> "document"
      [] t = "UNKNOWN" -> "unknown"

\* NodeType(value)
NodeTypeOf(v) == CHOOSE t \in NodeTypes : NodeTypeValue(t) = v

\* GraphNode(...) with __post_init__: discovered_at is set when it is empty
GraphNode(url, node_type, title, topics, depth, parent_url, discovered_at, last_visited, visit_count, document_url, now) ==
    [url |-> url, node_type |-> node_type, title |-> title, topics |-> topics,
     depth |-> depth, parent_url |-> parent_url,
     discovered_at |-> IF discovered_at = 0 THEN now ELSE discovered_at,
     last_visited |-> last_visited, visit_count |-> visit_count,
     is_active |-> TRUE, document_url |-> document_url, metadata |-> <<>>]

node_to_dict(node) == [node EXCEPT !.node_type = NodeTypeValue(node.node_type)]

node_from_dict(data, now) ==
    GraphNode(data.url, NodeTypeOf(data.node_type), data.title, data.topics,
              data.depth, data.parent_url, data.discovered_at, data.last_visited,
              data.visit_count, data.document_url, now)

GraphEdge(from_url, to_url, link_text, edge_type) ==
    [from_url |-> from_url, to_url |-> to_url, link_text |-> link_text,
     edge_type |-> edge_type, weight |-> 1]

-----------------------------------------------------------------------------
(* SiteGraph.  nodes is the dict url -> node as the sequence of its        *)
(* (key, node) items in insertion order; adjacency is the dict url -> set. *)

SiteGraph(site_name, base, now) ==
    [site_name |-> site_name, base_url |-> rstrip_slash(base),
     nodes |-> <<>>, edges |-> <<>>, adjacency |-> <<>>,
     known_routes |-> [reports |-> <<>>, insights |-> <<>>, documents |-> <<>>],
     site_topics |-> {}, created_at |-> now, last_updated |-> now]

NodeUrls(g) == {g.nodes[i].key : i \in DOMAIN g.nodes}

NodeIndex(g, url) == CHOOSE i \in DOMAIN g.nodes : g.nodes[i].key = url

get_node(g, url) == g.nodes[NodeIndex(g, url)].node

\* d[key] = value on an insertion-ordered dict
DictSet(items, key, value) ==
    IF \E i \in DOMAIN items : items[i].key = key
    THEN [i \in DOMAIN items |->
            IF items[i].key = key THEN [key |-> key, node |-> value] ELSE items[i]]
    ELSE Append(items, [key |-> key, node |-> value])

AdjGet(g, url) == IF url \in DOMAIN g.adjacency THEN g.adjacency[url] ELSE {}

AdjAdd(adj, from_url, to_url) ==
    IF from_url \in DOMAIN adj
    THEN [adj EXCEPT ![from_url] = @ \cup {to_url}]
    ELSE adj @@ (from_url :> {to_url})

\* add_node keeping the nodes in a list it appends to
add_node_appending(g, node, now) ==
    [g EXCEPT !.nodes = Append(g.nodes, [key |-> node.url, node |-> node]),
              !.adjacency = IF node.url \in DOMAIN g.adjacency
                            THEN g.adjacency
                            ELSE g.adjacency @@ (node.url :> {}),
              !.site_topics = g.site_topics \cup Range(node.topics),
              !.last_updated = now]

add_node(g, node, now) ==
    [g EXCEPT !.nodes = DictSet(g.nodes, node.url, node),
              !.adjacency = IF node.url \in DOMAIN g.adjacency
                            THEN g.adjacency
                            ELSE g.adjacency @@ (node.url :> {}),
              !.site_topics = g.site_topics \cup Range(node.topics),
              !.last_updated = now]

\* add_edge appending the edge without touching adjacency
add_edge_list_only(g, from_url, to_url, link_text, edge_type) ==
    [g EXCEPT !.edges = Append(g.edges, GraphEdge(from_url, to_url, link_text, edge_type))]

add_edge(g, from_url, to_url, link_text, edge_type) ==
    [g EXCEPT !.edges = Append(g.edges, GraphEdge(from_url, to_url, link_text, edge_type)),
              !.adjacency = AdjAdd(g.adjacency, from_url, to_url)]

\* register_report_route without the test for a URL already listed
register_report_route_appending(g, route_type, url) ==
    IF route_type \in DOMAIN g.known_routes
    THEN [g EXCEPT !.known_routes[route_type] = Append(@, url)]
    ELSE g

register_report_route(g, route_type, url) ==
    IF route_type \in DOMAIN g.known_routes
       /\ url \notin Range(g.known_routes[route_type])
    THEN [g EXCEPT !.known_routes[route_type] = Append(@, url)]
    ELSE g

-----------------------------------------------------------------------------
(* SiteGraph.find_path *)

RECURSIVE scan_no_enqueue(_, _, _, _, _, _)
\* scan_neighbors with the queue.append forgotten
scan_no_enqueue(nbrs, i, to_url, path, q, vis) ==
    IF i > Len(nbrs) THEN [found |-> <<>>, queue |-> q, visited |-> vis]
    ELSE IF nbrs[i] = to_url
         THEN [found |-> Append(path, nbrs[i]), queue |-> q, visited |-> vis]
    ELSE scan_no_enqueue(nbrs, i + 1, to_url, path, q, vis \cup {nbrs[i]})

RECURSIVE scan_shared_path(_, _, _, _, _, _)
\* scan_neighbors with path.append(neighbor) on the one list all entries share
scan_shared_path(nbrs, i, to_url, path, q, vis) ==
    IF i > Len(nbrs) THEN [found |-> <<>>, queue |-> q, visited |-> vis]
    ELSE IF nbrs[i] = to_url
         THEN [found |-> Append(path, nbrs[i]), queue |-> q, visited |-> vis]
    ELSE IF nbrs[i] \notin vis
         THEN scan_shared_path(nbrs, i + 1, to_url, Append(path, nbrs[i]),
                               Append(q, [url |-> nbrs[i], path |-> Append(path, nbrs[i])]),
                               vis \cup {nbrs[i]})
    ELSE scan_shared_path(nbrs, i + 1, to_url, path, q, vis)

RECURSIVE scan_neighbors(_, _, _, _, _, _)
\* the for loop over the neighbours of the dequeued entry
scan_neighbors(nbrs, i, to_url, path, q, vis) ==
    IF i > Len(nbrs) THEN [found |-> <<>>, queue |-> q, visited |-> vis]
    ELSE IF nbrs[i] = to_url
         THEN [found |-> Append(path, nbrs[i]), queue |-> q, visited |-> vis]
    ELSE IF nbrs[i] \notin vis
         THEN scan_neighbors(nbrs, i + 1, to_url, path,
                             Append(q, [url |-> nbrs[i], path |-> Append(path, nbrs[i])]),
                             vis \cup {nbrs[i]})
    ELSE scan_neighbors(nbrs, i + 1, to_url, path, q, vis)

RECURSIVE bfs_loop(_, _, _, _)
\* the while loop over the queue
bfs_loop(g, to_url, q, vis) ==
    IF q = <<>> THEN <<>>
    ELSE LET cur == Head(q)
             r == scan_neighbors(IterUrls(AdjGet(g, cur.url)), 1, to_url,
                                 cur.path, Tail(q), vis)
         IN  IF r.found # <<>> THEN r.found
             ELSE bfs_loop(g, to_url, r.queue, r.visited)

\* find_path without its from_url == to_url case
find_path_no_self_case(g, from_url, to_url) ==
    IF from_url \notin NodeUrls(g) \/ to_url \notin NodeUrls(g) THEN <<>>
    ELSE bfs_loop(g, to_url, <<[url |-> from_url, path |-> <<from_url>>]>>, {from_url})

find_path(g, from_url, to_url) ==
    IF from_url \notin NodeUrls(g) \/ to_url \notin NodeUrls(g) THEN <<>>
    ELSE IF from_url = to_url THEN <<from_url>>
    ELSE bfs_loop(g, to_url, <<[url |-> from_url, path |-> <<from_url>>]>>, {from_url})

-----------------------------------------------------------------------------
(* SiteGraph.save and SiteGraph.load *)

save_doc(g) ==
    [site_name |-> g.site_name, base_url |-> g.base_url,
     nodes |-> [i \in DOMAIN g.nodes |->
                  [key |-> g.nodes[i].key, node |-> node_to_dict(g.nodes[i].node)]],
     edges |-> g.edges,
     known_routes |-> g.known_routes,
     site_topics |-> IterTopics(g.site_topics),
     created_at |-> g.created_at, last_updated |-> g.last_updated]

RECURSIVE load_edges(_, _, _)
\* adjacency as load rebuilds it, edge by edge
load_edges(edges, i, adj) ==
    IF i > Len(edges) THEN adj
    ELSE load_edges(edges, i + 1, AdjAdd(adj, edges[i].from_url, edges[i].to_url))

RECURSIVE load_nodes(_, _, _, _)
\* graph.nodes[url] = GraphNode.from_dict(node_data), item by item
load_nodes(items, i, nodes, now) ==
    IF i > Len(items) THEN nodes
    ELSE load_nodes(items, i + 1,
                    DictSet(nodes, items[i].key, node_from_dict(items[i].node, now)), now)

\* load reading the key 'updated_at', which save does not write
load_updated_at(doc, now) ==
    [SiteGraph(doc.site_name, doc.base_url, now) EXCEPT
        !.nodes = load_nodes(doc.nodes, 1, <<>>, now),
        !.edges = doc.edges,
        !.adjacency = load_edges(doc.edges, 1, <<>>),
        !.known_routes = doc.known_routes,
        !.site_topics = Range(doc.site_topics),
        !.created_at = doc.created_at,
        !.last_updated = 0]

load(doc, now) ==
    [SiteGraph(doc.site_name, doc.base_url, now) EXCEPT
        !.nodes = load_nodes(doc.nodes, 1, <<>>, now),
        !.edges = doc.edges,
        !.adjacency = load_edges(doc.edges, 1, <<>>),
        !.known_routes = doc.known_routes,
        !.site_topics = Range(doc.site_topics),
        !.created_at = doc.created_at,
        !.last_updated = doc.last_updated]

-----------------------------------------------------------------------------
(* A caller working on the graph directly: the calls of SiteGraph's API.   *)
(* ret is the last call: its name, its URL arguments, the value returned   *)
(* and, for add_node, the node passed.                                     *)

NoRet == [op |-> "none", a |-> NoneUrl, b |-> NoneUrl, val |-> <<>>, node |-> <<>>]

Called(op, a, b, val) == [op |-> op, a |-> a, b |-> b, val |-> val, node |-> <<>>]

\* the nodes a direct caller passes to add_node
NodeArgs ==
    {[url |-> UA, node_type |-> "HOME", title |-> "Home", topics |-> <<>>,
      depth |-> 0, parent_url |-> NoneUrl],
     [url |-> UB, node_type |-> "REPORT_PAGE", title |-> "R1", topics |-> <<"AI">>,
      depth |-> 1, parent_url |-> UA],
     [url |-> UB, node_type |-> "LISTING", title |-> "R1", topics |-> <<"Cloud">>,
      depth |-> 1, parent_url |-> UA],
     [url |-> UC, node_type |-> "DOCUMENT", title |-> "", topics |-> <<"AI", "ESG">>,
      depth |-> 2, parent_url |-> UB]}

RouteCount(g) ==
    Len(g.known_routes.reports) + Len(g.known_routes.insights)
        + Len(g.known_routes.documents)

\* no registry is in use
IdleRegistry ==
    /\ graphs = <<>>
    /\ files = <<>>
    /\ faulty = {}
    /\ writer = <<>>

IdleRun ==
    /\ pc = "idle"
    /\ web = <<>>
    /\ args = <<>>
    /\ base_url = NoneUrl
    /\ queue = <<>>
    /\ visited = {}
    /\ pages_visited = 0
    /\ fetchlog = <<>>
    /\ runs = <<>>

InitGraph ==
    /\ graph = SiteGraph("site", Url(HostE, <<>>, TRUE), 1)
    /\ disk = <<>>
    /\ ret = NoRet
    /\ clock = 2
    /\ \E k \in {0, 1} :
          seed = [urls |-> IF k = 0 THEN GraphUrls ELSE Reverse(GraphUrls),
                  topics |-> IF k = 0 THEN AllTopics ELSE Reverse(AllTopics)]
    /\ IdleRun
    /\ IdleRegistry

\* node = GraphNode(...); graph.add_node(node)
GAddNode ==
    /\ clock < MaxClock
    /\ \E p \in NodeArgs :
          LET node == GraphNode(p.url, p.node_type, p.title, p.topics, p.depth,
                                p.parent_url, 0, 0, 0, NoneUrl, clock)
          IN  /\ graph' = add_node(graph, node, clock + 1)
              /\ ret' = [Called("add_node", p.url, NoneUrl, <<>>) EXCEPT !.node = <<node>>]
    /\ clock' = clock + 2
    /\ UNCHANGED <<disk, seed>>
    /\ UNCHANGED dvars
    /\ UNCHANGED rvars

\* the links a direct caller records: a cycle, a two-step and a one-step way
\* to the same page, a page linking to itself
EdgeArgs == {<<UA, UB>>, <<UB, UA>>, <<UB, UC>>, <<UA, UC>>, <<UB, UB>>}

\* graph.add_edge(f, t)
GAddEdge ==
    /\ Len(graph.edges) < MaxEdges
    /\ \E e \in EdgeArgs : graph' = add_edge(graph, e[1], e[2], "", "navigation")
    /\ ret' = NoRet
    /\ UNCHANGED <<disk, clock, seed>>
    /\ UNCHANGED dvars
    /\ UNCHANGED rvars

\* graph.add_edge(page, doc, text, "download")
GAddDownloadEdge ==
    /\ Len(graph.edges) < MaxDownloads
    /\ \E f \in {UA, UB} : graph' = add_edge(graph, f, UC, "pdf", "download")
    /\ ret' = NoRet
    /\ UNCHANGED <<disk, clock, seed>>
    /\ UNCHANGED dvars
    /\ UNCHANGED rvars

\* the routes a direct caller registers; "other" is no key of known_routes
RouteArgs == {<<"reports", UB>>, <<"reports", UC>>, <<"other", UB>>}

\* graph.register_report_route(ty, u)
GRegister ==
    /\ RouteCount(graph) < MaxRoutes
    /\ \E r \in RouteArgs : graph' = register_report_route(graph, r[1], r[2])
    /\ ret' = NoRet
    /\ UNCHANGED <<disk, clock, seed>>
    /\ UNCHANGED dvars
    /\ UNCHANGED rvars

\* graph.save(filepath)
GSave ==
    /\ disk' = <<save_doc(graph)>>
    /\ ret' = NoRet
    /\ UNCHANGED <<graph, clock, seed>>
    /\ UNCHANGED dvars
    /\ UNCHANGED rvars

\* graph = SiteGraph.load(filepath)
GLoad ==
    /\ disk # <<>>
    /\ graph' = load(disk[1], clock)
    /\ ret' = Called("load", NoneUrl, NoneUrl, <<>>)
    /\ UNCHANGED <<disk, clock, seed>>
    /\ UNCHANGED dvars
    /\ UNCHANGED rvars

\* graph.find_path(a, b)
GFindPath ==
    /\ \E a \in Range(GraphUrls), b \in Range(GraphUrls) :
          ret' = Called("find_path", a, b, find_path(graph, a, b))
    /\ UNCHANGED <<graph, disk, clock, seed>>
    /\ UNCHANGED dvars
    /\ UNCHANGED rvars

NextGraph == GAddNode \/ GAddEdge \/ GFindPath

SpecGraph == InitGraph /\ [][NextGraph]_vars

NextPersist == GAddNode \/ GAddDownloadEdge \/ GRegister \/ GSave \/ GLoad

SpecPersist == InitGraph /\ [][NextPersist]_vars

-----------------------------------------------------------------------------
(* Bounds of the discovery runs *)

MaxDepthBound == 2  \* max_depth is drawn from 0 .. MaxDepthBound
MaxPagesBound == 3  \* max_pages is drawn from 0 .. MaxPagesBound
MaxRuns == 2        \* discover_site is called MaxRuns times

-----------------------------------------------------------------------------
(* RouteDiscovery: URL helpers *)

HostWww == <<"w", "w", "w", ".", "e", ".", "c">>

HostM == <<"m", ".", "e", ".", "c">>

HostEWww == <<"e", ".", "w", "w", "w", ".", "c">>

D0 == Url(HostE, <<>>, TRUE)

D1 == Url(HostWww, <<Seg("insights", ""), Seg("r1", "")>>, FALSE)

D2 == Url(HostE, <<Seg("insights", "")>>, TRUE)

D3 == Url(HostE, <<Seg("docs", ""), Seg("a", "pdf")>>, FALSE)

D4 == Url(HostM, <<Seg("x", "")>>, FALSE)

D5 == Url(HostEWww, <<Seg("x", "")>>, FALSE)

D6 == Url(HostE, <<Seg("about", "")>>, FALSE)

SiteUrls == <<D0, D1, D2, D3, D4, D5, D6>>

\* the reference "//[bad": a host with an unbalanced bracket, no scheme
BadRef == [NoneUrl EXCEPT !.host = <<"[", "b">>]

\* the reference "/about"
AboutRef == [D6 EXCEPT !.scheme = "", !.host = <<>>]

WithQuery(u) == [u EXCEPT !.query = "q=1"]

WithFragment(u) == [u EXCEPT !.frag = "top"]

RECURSIVE replace_www(_)
\* host.replace('www.', ''): every occurrence, from the left
replace_www(host) ==
    IF Len(host) >= 4 /\ SubSeq(host, 1, 4) = <<"w", "w", "w", ".">>
    THEN replace_www(SubSeq(host, 5, Len(host)))
    ELSE IF host = <<>> THEN <<>>
    ELSE <<Head(host)>> \o replace_www(Tail(host))

\* urlsplit raises ValueError("Invalid IPv6 URL") on such a netloc
BadNetloc(host) ==
    \/ "[" \in Range(host) /\ "]" \notin Range(host)
    \/ "]" \in Range(host) /\ "[" \notin Range(host)

\* url.startswith('http')
startswith_http(url) == url.scheme \in {"http", "https"}

\* s.split('#')[0].split('?')[0]
strip_fragment_query(url) == [url EXCEPT !.query = "", !.frag = ""]

\* urljoin(base_url, url) for a base "scheme://netloc": a url with a scheme of
\* its own is returned as it is
urljoin(base, url) ==
    IF url.scheme # "" THEN url
    ELSE IF url.host # <<>> THEN [url EXCEPT !.scheme = base.scheme]
    ELSE [url EXCEPT !.scheme = base.scheme, !.host = base.host]

\* whether _normalize_url(url, base_url) raises: urljoin parses the reference
normalize_raises(url, base) == ~startswith_http(url) /\ BadNetloc(url.host)

\* _normalize_url keeping the query string
normalize_url_keep_query(url, base) ==
    IF startswith_http(url) THEN [url EXCEPT !.frag = ""]
    ELSE [urljoin(base, url) EXCEPT !.frag = ""]

normalize_url(url, base) ==
    IF startswith_http(url) THEN strip_fragment_query(url)
    ELSE strip_fragment_query(urljoin(base, url))

get_base_url(url) == [NoneUrl EXCEPT !.scheme = url.scheme, !.host = url.host]

is_same_domain(url, base) ==
    IF BadNetloc(url.host) \/ BadNetloc(base.host) THEN FALSE
    ELSE replace_www(url.host) = replace_www(base.host)

-----------------------------------------------------------------------------
(* RouteDiscovery: patterns, topics, classification, links *)

\* REPORT_PATTERNS: a path segment of one of these names, followed by "/"
ReportSegments ==
    {"insight", "insights", "research", "report", "reports", "publication",
     "publications", "whitepaper", "whitepapers", "white-paper", "white-papers",
     "studies", "analysis", "thought-leadership", "perspective", "perspectives",
     "article", "articles"}

\* DOCUMENT_PATTERNS: the string ends in one of these extensions
DocumentExtensions == {"pdf", "doc", "docx", "ppt", "pptx", "xls", "xlsx"}

matches_report(url) ==
    \E i \in DOMAIN url.segs :
        /\ url.segs[i].stem \in ReportSegments
        /\ url.segs[i].ext = ""
        /\ (i < Len(url.segs) \/ url.slash)

matches_document(url) ==
    /\ url.segs # <<>>
    /\ ~url.slash
    /\ url.query = ""
    /\ url.frag = ""
    /\ url.segs[Len(url.segs)].ext \in DocumentExtensions

\* TOPIC_KEYWORDS, for the keywords the texts of the model use
TopicKeywords ==
    <<[topic |-> "AI", keywords |-> {"artificial intelligence", "machine learning"}],
      [topic |-> "Quantum", keywords |-> {"quantum", "qubit"}],
      [topic |-> "Cloud", keywords |-> {"cloud", "aws"}],
      [topic |-> "Metaverse", keywords |-> {"metaverse", "ar"}]>>

\* _detect_topics on a text given as the set of the keywords it contains
detect_topics(text) ==
    LET hit == SelectSeq(TopicKeywords, LAMBDA e : e.keywords \cap text # {})
    IN  [i \in DOMAIN hit |-> hit[i].topic]

Link(href, text) == [href |-> href, text |-> text]

Page(title, hrefs, articles, text) ==
    [title |-> title, hrefs |-> hrefs, articles |-> articles, text |-> text]

\* the pages the fetcher answers with
Pages ==
    {Page("Empty", <<>>, 0, {}),
     Page("Home", <<Link(D6, "About"), Link(D1, "R1"), Link(D2, "All")>>, 0, {"cloud"}),
     Page("Back", <<Link(D0, "Home"), Link(WithQuery(D2), "All")>>, 5, {"quantum"}),
     Page("Docs", <<Link(D3, "PDF"), Link(D3, "")>>, 0, {"machine learning", "ar"}),
     Page("Out", <<Link(D4, "M"), Link(D5, "W"), Link(WithFragment(D6), "Top")>>, 0, {}),
     Page("Broken", <<Link(AboutRef, "About"), Link(BadRef, "Bad")>>, 4, {})}

RECURSIVE find_documents_from(_, _, _)
find_documents_from(hrefs, i, base) ==
    IF i > Len(hrefs) THEN [raised |-> FALSE, docs |-> <<>>]
    ELSE IF ~matches_document(hrefs[i].href) THEN find_documents_from(hrefs, i + 1, base)
    ELSE IF normalize_raises(hrefs[i].href, base) THEN [raised |-> TRUE, docs |-> <<>>]
    ELSE LET rest == find_documents_from(hrefs, i + 1, base)
         IN  [raised |-> rest.raised,
              docs |-> <<[url |-> normalize_url(hrefs[i].href, base),
                          text |-> hrefs[i].text]>> \o rest.docs]

find_documents(page_url, soup, base) == find_documents_from(soup.hrefs, 1, base)

\* classify_type testing the report patterns before the document patterns
classify_type_report_first(url, soup) ==
    IF matches_report(url)
    THEN IF soup.articles > 3 THEN "LISTING" ELSE "REPORT_PAGE"
    ELSE IF matches_document(url) THEN "DOCUMENT"
    ELSE IF url.segs = <<>> THEN "HOME"
    ELSE "SECTION"

\* the node type _classify_page decides on
classify_type(url, soup) ==
    IF matches_document(url) THEN "DOCUMENT"
    ELSE IF matches_report(url)
         THEN IF soup.articles > 3 THEN "LISTING" ELSE "REPORT_PAGE"
    ELSE IF url.segs = <<>>
            \/ (url.segs \in {<<Seg("en", "")>>, <<Seg("us", "")>>, <<Seg("en-us", "")>>}
                /\ ~url.slash)
         THEN "HOME"
    ELSE "SECTION"

\* _classify_page called at time now: [raised, node]
classify_page(url, page_data, depth, parent_url, now) ==
    LET node_type == classify_type(url, page_data)
        found == IF node_type = "REPORT_PAGE"
                 THEN find_documents(url, page_data, get_base_url(url))
                 ELSE [raised |-> FALSE, docs |-> <<>>]
        document_url == IF found.docs # <<>> THEN found.docs[1].url ELSE NoneUrl
    IN  [raised |-> found.raised,
         node |-> GraphNode(url, node_type, page_data.title,
                            detect_topics(page_data.text), depth, parent_url,
                            0, now, 1, document_url, now + 1)]

\* href contains '#', 'javascript:', 'mailto:' or 'tel:'
not_navigable(href) == href.frag # "" \/ href.scheme \in {"javascript", "mailto", "tel"}

is_interesting(url) == matches_report(url) \/ matches_document(url)

LinkCap == 50

RECURSIVE extract_links_from(_, _, _, _)
extract_links_from(hrefs, i, base, links) ==
    IF i > Len(hrefs) THEN [raised |-> FALSE, links |-> SubSeq(links, 1, Min(LinkCap, Len(links)))]
    ELSE IF not_navigable(hrefs[i].href) THEN extract_links_from(hrefs, i + 1, base, links)
    ELSE IF normalize_raises(hrefs[i].href, base) THEN [raised |-> TRUE, links |-> <<>>]
    ELSE LET full_url == normalize_url(hrefs[i].href, base)
             link == [url |-> full_url, text |-> hrefs[i].text]
         IN  IF ~is_same_domain(full_url, base)
             THEN extract_links_from(hrefs, i + 1, base, links)
             ELSE IF is_interesting(full_url)
             THEN extract_links_from(hrefs, i + 1, base, <<link>> \o links)
             ELSE extract_links_from(hrefs, i + 1, base, Append(links, link))

\* extract_links returning only the links that match a report or document pattern
extract_links_reports_only(page_url, soup, base) ==
    LET r == extract_links_from(soup.hrefs, 1, base, <<>>)
    IN  [raised |-> r.raised,
         links |-> SelectSeq(r.links, LAMBDA l : is_interesting(l.url))]

\* extract_links with the links collected in a set to drop the repeats
extract_links_via_set(page_url, soup, base) ==
    LET r == extract_links_from(soup.hrefs, 1, base, <<>>)
        urls == IterUrls({r.links[i].url : i \in DOMAIN r.links})
    IN  [raised |-> r.raised,
         links |-> [i \in DOMAIN urls |-> [url |-> urls[i], text |-> ""]]]

\* extract_links returning the generic links ahead of the report links
extract_links_generic_first(page_url, soup, base) ==
    LET r == extract_links_from(soup.hrefs, 1, base, <<>>)
    IN  [raised |-> r.raised, links |-> Reverse(r.links)]

extract_links(page_url, soup, base) == extract_links_from(soup.hrefs, 1, base, <<>>)

-----------------------------------------------------------------------------
(* RouteDiscovery.discover_site *)

Entry(url, depth, parent_url) == [url |-> url, depth |-> depth, parent_url |-> parent_url]

\* the loop condition
loop_continues_le(q, n) == q # <<>> /\ n <= args.max_pages

loop_continues(q, n) == q # <<>> /\ n < args.max_pages

\* the URL the iteration works on
current_url == normalize_url(Head(queue).url, base_url)

\* the skip without the test of the visited set
skip_deep_only(url, depth) == depth > args.max_depth

skip_visited_or_deep(url, depth) == url \in visited \/ depth > args.max_depth

RECURSIVE follow_links_all(_, _, _, _, _, _)
\* the loop over the extracted links without the test of the visited set
follow_links_all(links, i, g, q, depth, cur) ==
    IF i > Len(links) THEN [graph |-> g, queue |-> q]
    ELSE follow_links_all(links, i + 1,
                          add_edge(g, cur, links[i].url, links[i].text, "navigation"),
                          Append(q, Entry(links[i].url, depth + 1, cur)), depth, cur)

RECURSIVE follow_links_same_depth(_, _, _, _, _, _)
\* the loop over the extracted links enqueueing them at the depth of the page
follow_links_same_depth(links, i, g, q, depth, cur) ==
    IF i > Len(links) THEN [graph |-> g, queue |-> q]
    ELSE IF links[i].url \notin (visited \cup {cur})
         THEN follow_links_same_depth(links, i + 1,
                           add_edge(g, cur, links[i].url, links[i].text, "navigation"),
                           Append(q, Entry(links[i].url, depth, cur)), depth, cur)
    ELSE follow_links_same_depth(links, i + 1, g, q, depth, cur)

RECURSIVE follow_links(_, _, _, _, _, _)
\* the loop over the extracted links: [graph, queue]
follow_links(links, i, g, q, depth, cur) ==
    IF i > Len(links) THEN [graph |-> g, queue |-> q]
    ELSE IF links[i].url \notin (visited \cup {cur})
         THEN follow_links(links, i + 1,
                           add_edge(g, cur, links[i].url, links[i].text, "navigation"),
                           Append(q, Entry(links[i].url, depth + 1, cur)), depth, cur)
    ELSE follow_links(links, i + 1, g, q, depth, cur)

\* the node recorded: add_node, the edge from the parent, the route
record_node(g, node, now) ==
    LET g1 == add_node(g, node, now)
        g2 == IF node.parent_url # NoneUrl
              THEN add_edge(g1, node.parent_url, node.url, "", "navigation")
              ELSE g1
    IN  IF node.node_type = "LISTING" THEN register_report_route(g2, "reports", node.url)
        ELSE IF node.node_type = "DOCUMENT"
             THEN register_report_route(g2, "documents", node.url)
        ELSE g2

SiteSeeds ==
    {[urls |-> SiteUrls, topics |-> AllTopics],
     [urls |-> Reverse(SiteUrls), topics |-> Reverse(AllTopics)]}

InitDiscover ==
    /\ graph = SiteGraph("site", D0, 1)
    /\ disk = <<>>
    /\ ret = NoRet
    /\ clock = 2
    /\ seed \in SiteSeeds
    /\ pc = "idle"
    /\ web = <<>>
    /\ \E d \in 0 .. MaxDepthBound, n \in 0 .. MaxPagesBound :
          args = [max_depth |-> d, max_pages |-> n, start_url |-> D0]
    /\ base_url = NoneUrl
    /\ queue = <<>>
    /\ visited = {}
    /\ pages_visited = 0
    /\ fetchlog = <<>>
    /\ runs = <<>>
    /\ IdleRegistry

\* lines 93-105: the graph, the queue with the start URL, the empty visited set
StartRun ==
    /\ base_url' = get_base_url(args.start_url)
    /\ graph' = SiteGraph("site", get_base_url(args.start_url), clock)
    /\ clock' = clock + 1
    /\ queue' = <<Entry(args.start_url, 0, NoneUrl)>>
    /\ visited' = {}
    /\ pages_visited' = 0
    /\ fetchlog' = <<>>
    /\ pc' = "loop"
    /\ UNCHANGED <<disk, ret, web, args, runs>>
    /\ UNCHANGED rvars

DStart ==
    /\ pc = "idle"
    /\ StartRun
    /\ UNCHANGED seed

\* discover_site called again, by this process or by a later one
DAgain ==
    /\ pc = "done"
    /\ Len(runs) < MaxRuns
    /\ StartRun
    /\ seed' \in SiteSeeds

Looping == pc = "loop" /\ loop_continues(queue, pages_visited)

\* lines 113-119: the entry is dropped, continue
DSkip ==
    /\ Looping
    /\ \/ skip_visited_or_deep(current_url, Head(queue).depth)
       \/ ~is_same_domain(current_url, base_url)
    /\ queue' = Tail(queue)
    /\ UNCHANGED <<graph, disk, ret, clock, seed>>
    /\ UNCHANGED <<pc, web, args, base_url, visited, pages_visited, fetchlog, runs>>
    /\ UNCHANGED rvars

Fetching ==
    /\ Looping
    /\ ~skip_visited_or_deep(current_url, Head(queue).depth)
    /\ is_same_domain(current_url, base_url)

\* the answers _fetch_page(url) can give: <<>> is None; the fetcher answers a
\* URL it was asked before as it did then
Responses(url) ==
    IF url \in DOMAIN web THEN {web[url]} ELSE {<<>>} \cup {<<p>> : p \in Pages}

\* Fetched counting the page only when its fetch succeeded
Fetched_counting_successes(url, r) ==
    /\ web' = IF url \in DOMAIN web THEN web ELSE web @@ (url :> r)
    /\ fetchlog' = Append(fetchlog, [url |-> url, depth |-> Head(queue).depth, ok |-> r # <<>>])
    /\ visited' = visited \cup {url}
    /\ pages_visited' = pages_visited + (IF r = <<>> THEN 0 ELSE 1)

Fetched(url, r) ==
    /\ web' = IF url \in DOMAIN web THEN web ELSE web @@ (url :> r)
    /\ fetchlog' = Append(fetchlog, [url |-> url, depth |-> Head(queue).depth, ok |-> r # <<>>])
    /\ visited' = visited \cup {url}
    /\ pages_visited' = pages_visited + 1

\* DFetchFail raising instead of continuing
DFetchFail_raising ==
    /\ Fetching
    /\ \E r \in Responses(current_url) :
          /\ r = <<>>
          /\ Fetched(current_url, r)
    /\ queue' = Tail(queue)
    /\ pc' = "raised"
    /\ UNCHANGED <<graph, disk, ret, clock, seed>>
    /\ UNCHANGED <<args, base_url, runs>>
    /\ UNCHANGED rvars

\* lines 121-130: _fetch_page returns None, continue
DFetchFail ==
    /\ Fetching
    /\ \E r \in Responses(current_url) :
          /\ r = <<>>
          /\ Fetched(current_url, r)
    /\ queue' = Tail(queue)
    /\ UNCHANGED <<graph, disk, ret, clock, seed>>
    /\ UNCHANGED <<pc, args, base_url, runs>>
    /\ UNCHANGED rvars

\* lines 121-154: the page is fetched, classified, recorded, its links followed;
\* an exception of _classify_page or _extract_links leaves discover_site
DVisit ==
    /\ Fetching
    /\ \E r \in Responses(current_url) :
          /\ r # <<>>
          /\ Fetched(current_url, r)
          /\ LET cur == current_url
                 depth == Head(queue).depth
                 c == classify_page(cur, r[1], depth, Head(queue).parent_url, clock)
                 g == record_node(graph, c.node, clock + 2)
                 x == extract_links(cur, r[1], base_url)
                 f == follow_links(x.links, 1, g, Tail(queue), depth, cur)
             IN  IF c.raised
                 THEN /\ pc' = "raised"
                      /\ queue' = Tail(queue)
                      /\ graph' = graph
                      /\ clock' = clock
                 ELSE IF x.raised
                 THEN /\ pc' = "raised"
                      /\ queue' = Tail(queue)
                      /\ graph' = g
                      /\ clock' = clock + 3
                 ELSE /\ pc' = "loop"
                      /\ queue' = f.queue
                      /\ graph' = f.graph
                      /\ clock' = clock + 3
    /\ UNCHANGED <<disk, ret, seed>>
    /\ UNCHANGED <<args, base_url, runs>>
    /\ UNCHANGED rvars

\* lines 156-159: the loop has ended, the graph is returned
DFinish ==
    /\ pc = "loop"
    /\ ~loop_continues(queue, pages_visited)
    /\ pc' = "done"
    /\ runs' = Append(runs, [graph |-> graph, seed |-> seed])
    /\ UNCHANGED <<graph, disk, ret, clock, seed>>
    /\ UNCHANGED <<web, args, base_url, queue, visited, pages_visited, fetchlog>>
    /\ UNCHANGED rvars

RunStep == DStart \/ DSkip \/ DFetchFail \/ DVisit \/ DFinish

NextDiscover == RunStep \/ DAgain

SpecDiscover == InitDiscover /\ [][NextDiscover]_vars

-----------------------------------------------------------------------------
(* Reachability and distance in adjacency, by closure of the successor     *)
(* relation (not by the search find_path makes).                           *)

Successors(g, S) == UNION {AdjGet(g, u) : u \in S}

RECURSIVE ReachFrom(_, _)
ReachFrom(g, S) ==
    IF Successors(g, S) \subseteq S THEN S ELSE ReachFrom(g, S \cup Successors(g, S))

Reachable(g, a, b) == b \in ReachFrom(g, {a})

RECURSIVE DistFrom(_, _, _, _)
\* the number of edges of a shortest path from S to b, -1 when there is none
DistFrom(g, S, b, d) ==
    IF b \in S THEN d
    ELSE IF Successors(g, S) \subseteq S THEN 0 - 1
    ELSE DistFrom(g, S \cup Successors(g, S), b, d + 1)

Dist(g, a, b) == DistFrom(g, {a}, b, 0)

FoundPath == ret.op = "find_path" /\ ret.val # <<>>

-----------------------------------------------------------------------------
(* C5 as stated: find_path(a, b) returns the empty list if and only if b   *)
(* is not reachable from a in adjacency, for all URLs a and b, also when   *)
(* an endpoint has no node.                                                *)
C5_EmptyIffUnreachable ==
    ret.op = "find_path" =>
        (ret.val = <<>> <=> ~Reachable(graph, ret.a, ret.b))

(* C5 amended: when a and b are both nodes, find_path(a, b) is empty if    *)
(* and only if b is not reachable from a in adjacency (the path may run    *)
(* through URLs that have no node); when a or b has no node, find_path     *)
(* returns the empty list whatever adjacency holds.                        *)
C5_EmptyIffUnreachableAmongNodes ==
    ret.op = "find_path" =>
        IF ret.a \in NodeUrls(graph) /\ ret.b \in NodeUrls(graph)
        THEN ret.val = <<>> <=> ~Reachable(graph, ret.a, ret.b)
        ELSE ret.val = <<>>

\* a path between two nodes found through a URL that has no node
C5_Witness ==
    /\ FoundPath
    /\ Len(ret.val) = 3
    /\ ret.val[2] \notin NodeUrls(graph)

(* C6 as stated: find_path(a, a) returns [a] for every URL a.              *)
C6_SelfPath ==
    (ret.op = "find_path" /\ ret.a = ret.b) => ret.val = <<ret.a>>

(* C6 amended: find_path(a, a) returns [a] for every URL a that is a node  *)
(* of the graph, and the empty list for a URL that has no node.            *)
C6_SelfPathOfNode ==
    (ret.op = "find_path" /\ ret.a = ret.b) =>
        ret.val = IF ret.a \in NodeUrls(graph) THEN <<ret.a>> ELSE <<>>

\* find_path(a, a) answered for a node a that adjacency also leads back to
C6_Witness ==
    /\ ret.op = "find_path"
    /\ ret.a = ret.b
    /\ ret.a \in NodeUrls(graph)
    /\ ret.a \in Successors(graph, ReachFrom(graph, {ret.a}))
    /\ ret.val = <<ret.a>>

(* C7: a non-empty result of find_path(a, b) starts with a, ends with b,   *)
(* each consecutive pair (x, y) of it has y in adjacency[x], and no path   *)
(* from a to b in adjacency has fewer edges.                               *)
C7_ShortestPath ==
    FoundPath =>
        /\ ret.val[1] = ret.a
        /\ ret.val[Len(ret.val)] = ret.b
        /\ \A i \in 1 .. Len(ret.val) - 1 :
              ret.val[i + 1] \in AdjGet(graph, ret.val[i])
        /\ Len(ret.val) - 1 = Dist(graph, ret.a, ret.b)

\* the direct edge is returned although a path of two edges exists too
C7_Witness ==
    /\ FoundPath
    /\ Len(ret.val) = 2
    /\ \E m \in Range(GraphUrls) \ {ret.a, ret.b} :
          m \in AdjGet(graph, ret.a) /\ ret.b \in AdjGet(graph, m)

SameGraph(h, g) ==
    /\ h.site_name = g.site_name
    /\ h.base_url = g.base_url
    /\ h.nodes = g.nodes
    /\ h.edges = g.edges
    /\ h.known_routes = g.known_routes
    /\ h.site_topics = g.site_topics
    /\ h.created_at = g.created_at
    /\ h.last_updated = g.last_updated
    /\ \A a \in Range(GraphUrls), b \in Range(GraphUrls) :
          find_path(h, a, b) = find_path(g, a, b)

(* C9: load() of the document that save() wrote for a graph yields a graph *)
(* with the same nodes (every field), the same edge list in the same       *)
(* order, the same known_routes, site_topics and timestamps, and the same  *)
(* answers from find_path.                                                 *)
C9_SaveLoadRoundTrip ==
    [][(ret'.op = "load" /\ disk = <<save_doc(graph)>>) => SameGraph(graph', graph)]_vars

\* a graph with nodes, an edge between two of them, a route and topics was
\* loaded from its document; load left out the empty adjacency entry
C9_Witness ==
    /\ ret.op = "load"
    /\ disk = <<save_doc(graph)>>
    /\ Len(graph.nodes) = 2
    /\ \E u \in NodeUrls(graph) : u \notin DOMAIN graph.adjacency
    /\ \E a \in NodeUrls(graph), b \in NodeUrls(graph) : Len(find_path(graph, a, b)) = 2
    /\ RouteCount(graph) > 0
    /\ graph.site_topics # {}
    /\ graph.last_updated > graph.created_at

-----------------------------------------------------------------------------
(* discover_site: budgets, termination, failures, domain scope, determinism *)

\* host with only a leading "www." label removed
strip_leading_www(host) ==
    IF Len(host) >= 4 /\ SubSeq(host, 1, 4) = <<"w", "w", "w", ".">>
    THEN SubSeq(host, 5, Len(host))
    ELSE host

\* C1: in every state of a run the graph holds at most max_pages nodes, no
\* node has a depth above max_depth and no URL was fetched at a depth above
\* max_depth.
C1_BudgetsAreHardLimits ==
    /\ Len(graph.nodes) <= args.max_pages
    /\ Len(fetchlog) <= args.max_pages
    /\ \A i \in DOMAIN graph.nodes : graph.nodes[i].node.depth <= args.max_depth
    /\ \A i \in DOMAIN fetchlog : fetchlog[i].depth <= args.max_depth

\* the page budget is used up with entries left on the queue, and a node
\* sits at the depth limit
C1_Witness ==
    /\ pc = "done"
    /\ args.max_pages >= 2
    /\ Len(graph.nodes) = args.max_pages
    /\ queue # <<>>
    /\ \E i \in DOMAIN graph.nodes : graph.nodes[i].node.depth = args.max_depth

\* C2: Done is the only terminal state of a run: whenever no step of the run
\* is possible any more, the run has reached Done.
C2_DoneIsOnlyTerminalState == (~ENABLED RunStep) => pc = "done"

\* C3: a step whose fetch fails creates no node, adds no topic, registers no
\* route, enqueues nothing and leaves the run in its loop.
C3_FetchFailureShortCircuits ==
    [][(Len(fetchlog') = Len(fetchlog) + 1 /\ ~fetchlog'[Len(fetchlog')].ok)
        => (graph' = graph /\ queue' = Tail(queue) /\ pc' = "loop")]_vars

\* a failed fetch is followed by a successful one, and the failed URL is no node
C3_Witness ==
    \E i, j \in DOMAIN fetchlog :
        /\ i < j
        /\ ~fetchlog[i].ok
        /\ fetchlog[j].ok
        /\ fetchlog[i].url \notin NodeUrls(graph)
        /\ fetchlog[j].url \in NodeUrls(graph)

\* C4: every URL a run fetches has the domain of the start URL, the two
\* compared after removing only a leading "www." label.
C4_OnlyStartDomainFetched ==
    \A i \in DOMAIN fetchlog :
        strip_leading_www(fetchlog[i].url.host) = strip_leading_www(args.start_url.host)

\* what C10 compares of a returned graph
NodeSet(g) ==
    {[url |-> g.nodes[i].node.url, node_type |-> g.nodes[i].node.node_type,
      topics |-> g.nodes[i].node.topics, depth |-> g.nodes[i].node.depth,
      parent_url |-> g.nodes[i].node.parent_url] : i \in DOMAIN g.nodes}

EdgeList(g) ==
    [i \in DOMAIN g.edges |-> [from_url |-> g.edges[i].from_url, to_url |-> g.edges[i].to_url]]

\* C10: two runs over the same start URL, budgets and fetcher responses return
\* the same set of nodes (url, type, topics, depth, parent_url) and the same
\* edge list.
C10_RunsAreDeterministic ==
    Len(runs) = 2 =>
        /\ NodeSet(runs[1].graph) = NodeSet(runs[2].graph)
        /\ EdgeList(runs[1].graph) = EdgeList(runs[2].graph)

\* two finished runs under different iteration orders, at different times,
\* each with several nodes and edges
C10_Witness ==
    /\ Len(runs) = 2
    /\ runs[1].seed # runs[2].seed
    /\ Len(runs[1].graph.nodes) >= 2
    /\ Len(runs[1].graph.edges) >= 3
    /\ runs[1].graph # runs[2].graph

-----------------------------------------------------------------------------
(* _normalize_url applied to the URLs and references of a bounded universe *)

\* the URLs and references _normalize_url is called with
CanonUrls ==
    [scheme : {"https", "http", "", "mailto"},
     host : {<<>>, HostE, HostWww, <<"[", "b">>},
     segs : {<<>>, <<Seg("docs", ""), Seg("a", "pdf")>>},
     slash : BOOLEAN,
     query : {"", "q=1"},
     frag : {"", "top"}]

CanonBases == {get_base_url(D0), [get_base_url(D1) EXCEPT !.scheme = "http"]}

\* r = self._normalize_url(u, b); the call raises for some references
GNormalize ==
    /\ \E u \in CanonUrls, b \in CanonBases :
          ret' = IF normalize_raises(u, b)
                 THEN Called("normalize_url raised", u, b, <<>>)
                 ELSE Called("normalize_url", u, b, <<normalize_url(u, b)>>)
    /\ UNCHANGED <<graph, disk, clock, seed>>
    /\ UNCHANGED dvars
    /\ UNCHANGED rvars

SpecCanon == InitGraph /\ [][GNormalize]_vars

\* C11: the result of _normalize_url, normalized again against the same
\* base, is returned unchanged and without raising, and it carries neither a
\* fragment nor a query string.
C11_CanonIdempotent ==
    ret.op = "normalize_url" =>
        /\ ~normalize_raises(ret.val[1], ret.b)
        /\ normalize_url(ret.val[1], ret.b) = ret.val[1]
        /\ ret.val[1].query = ""
        /\ ret.val[1].frag = ""

\* a relative reference with query and fragment was resolved and stripped
C11_Witness ==
    /\ ret.op = "normalize_url"
    /\ ret.a.scheme = ""
    /\ ret.a.host = <<>>
    /\ ret.a.query # ""
    /\ ret.a.frag # ""
    /\ ret.val[1] = [ret.a EXCEPT !.scheme = ret.b.scheme, !.host = ret.b.host,
                                  !.query = "", !.frag = ""]
    /\ ret.val[1] # ret.a

-----------------------------------------------------------------------------
(* Scenario A: discover_site on a fixture site, all fetches succeeding *)

A0 == Url(HostE, <<Seg("insights", "html")>>, FALSE)

A1 == Url(HostE, <<Seg("insights", ""), Seg("r1", "")>>, FALSE)

A2 == Url(HostE, <<Seg("reports", ""), Seg("r2", "")>>, FALSE)

A3 == Url(HostE, <<Seg("research", ""), Seg("r3", "")>>, FALSE)

A4 == Url(HostE, <<Seg("about", "")>>, FALSE)

A5 == Url(HostE, <<Seg("contact", "")>>, FALSE)

A6 == Url(HostE, <<Seg("insights", ""), Seg("r9", "")>>, FALSE)

ReportLinksA == {A1, A2, A3}

\* the start page: two generic navigation links and three report links
StartPageA ==
    Page("Insights", <<Link(A4, "About"), Link(A1, "R1"), Link(A2, "R2"),
                       Link(A5, "Contact"), Link(A3, "R3")>>, 0, {"cloud"})

\* what a report link may lead to: a plain page, a page of cards linking back,
\* a page linking further
ReportPagesA ==
    {Page("Report", <<>>, 0, {"quantum"}),
     Page("Cards", <<Link(A0, "Up")>>, 5, {}),
     Page("More", <<Link(A6, "Next")>>, 0, {})}

InitScenarioA ==
    /\ graph = SiteGraph("site", A0, 1)
    /\ disk = <<>>
    /\ ret = NoRet
    /\ clock = 2
    /\ seed \in SiteSeeds
    /\ pc = "idle"
    /\ \E p1 \in ReportPagesA, p2 \in ReportPagesA, p3 \in ReportPagesA :
          web = (A0 :> <<StartPageA>>) @@ (A1 :> <<p1>>) @@ (A2 :> <<p2>>)
                @@ (A3 :> <<p3>>) @@ (A4 :> <<Page("About", <<>>, 0, {})>>)
                @@ (A5 :> <<Page("Contact", <<>>, 0, {})>>)
                @@ (A6 :> <<Page("Report", <<>>, 0, {})>>)
    /\ args = [max_depth |-> 1, max_pages |-> 10, start_url |-> A0]
    /\ base_url = NoneUrl
    /\ queue = <<>>
    /\ visited = {}
    /\ pages_visited = 0
    /\ fetchlog = <<>>
    /\ runs = <<>>
    /\ IdleRegistry

NextScenarioA == DStart \/ DSkip \/ DVisit \/ DFinish

SpecScenarioA == InitScenarioA /\ [][NextScenarioA]_vars

\* the edges of g that leave url
EdgesFrom(g, url) == SelectSeq(g.edges, LAMBDA e : e.from_url = url)

-----------------------------------------------------------------------------
(* RouteDiscovery.quick_scan *)

MaxScanUrls == 2    \* quick_scan is called with at most MaxScanUrls URLs

D7 == Url(HostE, <<Seg("docs", ""), Seg("b", "pdf")>>, FALSE)

\* the reference "/docs/b.pdf"
DocRef == [D7 EXCEPT !.scheme = "", !.host = <<>>]

\* the reference "//[bad/c.pdf"
BadDocRef == [BadRef EXCEPT !.segs = <<Seg("c", "pdf")>>]

\* the URLs quick_scan is called with
ScanUrls == {D2, D6, D3}

\* the pages the fetcher answers quick_scan with
ScanPages ==
    {Page("Empty", <<Link(D6, "About")>>, 0, {}),
     Page("Two", <<Link(D3, "PDF"), Link(D1, "R1"), Link(DocRef, "Cloud report")>>,
          0, {"quantum"}),
     Page("Twice", <<Link(D3, "PDF"), Link(D3, "")>>, 5, {"machine learning", "ar"}),
     Page("Broken", <<Link(D3, "PDF"), Link(BadDocRef, "Bad")>>, 0, {})}

\* the keywords of TOPIC_KEYWORDS a link text contains
LinkTextKeywords(text) == IF text = "Cloud report" THEN {"cloud"} ELSE {}

\* the loop over docs left after its first document
scan_documents_first_only(docs, i, g, url, now) ==
    IF docs = <<>> THEN [graph |-> g, now |-> now]
    ELSE LET doc_node == GraphNode(docs[1].url, "DOCUMENT", "Document", <<>>,
                                   2, url, 0, 0, 0, docs[1].url, now)
             g1 == add_node(g, doc_node, now + 1)
             g2 == add_edge(g1, url, docs[1].url, docs[1].text, "download")
         IN  [graph |-> register_report_route(g2, "documents", docs[1].url), now |-> now + 2]

RECURSIVE scan_documents(_, _, _, _, _)
\* the loop over docs: [graph, now]
scan_documents(docs, i, g, url, now) ==
    IF i > Len(docs) THEN [graph |-> g, now |-> now]
    ELSE LET doc_url == docs[i].url
             doc_text == docs[i].text
             doc_node == GraphNode(doc_url, "DOCUMENT",
                                   IF doc_text # "" THEN doc_text ELSE "Document",
                                   detect_topics(LinkTextKeywords(doc_text)),
                                   2, url, 0, 0, 0, doc_url, now)
             g1 == add_node(g, doc_node, now + 1)
             g2 == add_edge(g1, url, doc_url, doc_text, "download")
         IN  scan_documents(docs, i + 1, register_report_route(g2, "documents", doc_url),
                            url, now + 2)

InitScan ==
    /\ graph = SiteGraph("site", NoneUrl, 1)
    /\ disk = <<>>
    /\ ret = NoRet
    /\ clock = 2
    /\ seed \in SiteSeeds
    /\ pc = "idle"
    /\ web = <<>>
    /\ \E n \in 0 .. MaxScanUrls : \E urls \in [1 .. n -> ScanUrls] : args = [urls |-> urls]
    /\ base_url = NoneUrl
    /\ queue = <<>>
    /\ visited = {}
    /\ pages_visited = 0
    /\ fetchlog = <<>>
    /\ runs = <<>>
    /\ IdleRegistry

\* lines 175-176: the base URL of the first URL, the graph
QStart ==
    /\ pc = "idle"
    /\ LET b == IF args.urls # <<>> THEN get_base_url(args.urls[1]) ELSE NoneUrl
       IN  /\ base_url' = b
           /\ graph' = SiteGraph("site", b, clock)
    /\ clock' = clock + 1
    /\ queue' = args.urls
    /\ pc' = "scan"
    /\ UNCHANGED <<disk, ret, seed>>
    /\ UNCHANGED <<web, args, visited, pages_visited, fetchlog, runs>>
    /\ UNCHANGED rvars

\* the answers _fetch_page(url) can give quick_scan
ScanResponses(url) ==
    IF url \in DOMAIN web THEN {web[url]} ELSE {<<>>} \cup {<<p>> : p \in ScanPages}

ScanFetched(url, r) ==
    /\ web' = IF url \in DOMAIN web THEN web ELSE web @@ (url :> r)
    /\ fetchlog' = Append(fetchlog, [url |-> url, depth |-> 1, ok |-> r # <<>>])

\* lines 178-183: _fetch_page returns None, the next URL is taken
QFetchFail ==
    /\ pc = "scan"
    /\ queue # <<>>
    /\ \E r \in ScanResponses(Head(queue)) :
          /\ r = <<>>
          /\ ScanFetched(Head(queue), r)
    /\ queue' = Tail(queue)
    /\ UNCHANGED <<graph, disk, ret, clock, seed>>
    /\ UNCHANGED <<pc, args, base_url, visited, pages_visited, runs>>
    /\ UNCHANGED rvars

\* lines 178-204: the page is fetched, classified and recorded with its
\* documents; an exception of _classify_page or _find_documents leaves quick_scan
QScan ==
    /\ pc = "scan"
    /\ queue # <<>>
    /\ \E r \in ScanResponses(Head(queue)) :
          /\ r # <<>>
          /\ ScanFetched(Head(queue), r)
          /\ LET url == Head(queue)
                 c == classify_page(url, r[1], 1, NoneUrl, clock)
                 g == add_node(graph, c.node, clock + 2)
                 found == find_documents(url, r[1], base_url)
                 f == scan_documents(found.docs, 1, g, url, clock + 3)
             IN  IF c.raised
                 THEN /\ pc' = "raised"
                      /\ graph' = graph
                      /\ clock' = clock
                 ELSE IF found.raised
                 THEN /\ pc' = "raised"
                      /\ graph' = g
                      /\ clock' = clock + 3
                 ELSE /\ pc' = "scan"
                      /\ graph' = f.graph
                      /\ clock' = f.now
    /\ queue' = Tail(queue)
    /\ UNCHANGED <<disk, ret, seed>>
    /\ UNCHANGED <<args, base_url, visited, pages_visited, runs>>
    /\ UNCHANGED rvars

\* line 206: return graph
QFinish ==
    /\ pc = "scan"
    /\ queue = <<>>
    /\ pc' = "done"
    /\ runs' = Append(runs, [graph |-> graph, seed |-> seed])
    /\ UNCHANGED <<graph, disk, ret, clock, seed>>
    /\ UNCHANGED <<web, args, base_url, queue, visited, pages_visited, fetchlog>>
    /\ UNCHANGED rvars

NextScan == QStart \/ QFetchFail \/ QScan \/ QFinish

SpecScan == InitScan /\ [][NextScan]_vars
\* the URLs quick_scan fetched with success
OkUrls == {fetchlog[i].url : i \in {j \in DOMAIN fetchlog : fetchlog[j].ok}}

\* how often quick_scan fetched u with success
OkFetches(u) == Cardinality({i \in DOMAIN fetchlog : fetchlog[i].ok /\ fetchlog[i].url = u})

\* the document links of the page at u, as _find_documents returns them
ScanDocs(u) == find_documents(u, web[u][1], base_url).docs

ScanDocUrls(u) == {ScanDocs(u)[i].url : i \in DOMAIN ScanDocs(u)}

\* how often the page at u links to the document d
Occurrences(u, d) == Cardinality({i \in DOMAIN ScanDocs(u) : ScanDocs(u)[i].url = d})

DownloadEdges(g, u, d) ==
    Len(SelectSeq(g.edges, LAMBDA e : e.from_url = u /\ e.to_url = d /\ e.edge_type = "download"))

\* what C13 says of every scan and both readings share: the fetches are the
\* input list, the nodes are the fetched pages and their documents, every
\* document is a Document node and a document route, no route is repeated
ScanRecordsPagesAndDocuments ==
    /\ [i \in DOMAIN fetchlog |-> fetchlog[i].url] = args.urls
    /\ NodeUrls(graph) = OkUrls \cup UNION {ScanDocUrls(u) : u \in OkUrls}
    /\ \A u \in OkUrls : \A d \in ScanDocUrls(u) :
          /\ get_node(graph, d).node_type = "DOCUMENT"
          /\ d \in Range(graph.known_routes.documents)
    /\ Range(graph.known_routes.documents) = UNION {ScanDocUrls(u) : u \in OkUrls}
    /\ Len(graph.known_routes.documents) = Cardinality(Range(graph.known_routes.documents))
    /\ \A i \in DOMAIN graph.edges :
          /\ graph.edges[i].edge_type = "download"
          /\ graph.edges[i].from_url \in OkUrls
          /\ graph.edges[i].to_url \in ScanDocUrls(graph.edges[i].from_url)

\* C13: a finished quick_scan has fetched exactly the input list, and for
\* every scan of a page and every distinct document link of it there is one
\* Document node, one document route and one download edge.
C13_QuickScanOneEdgePerDocument ==
    pc = "done" =>
        /\ ScanRecordsPagesAndDocuments
        /\ \A u \in OkUrls : \A d \in ScanDocUrls(u) :
              DownloadEdges(graph, u, d) = OkFetches(u)

\* C13 as the code behaves: one download edge for every occurrence of a
\* document link on the page, the node and the route once for each document.
C13_QuickScanOneEdgePerLink ==
    pc = "done" =>
        /\ ScanRecordsPagesAndDocuments
        /\ \A u \in OkUrls : \A d \in ScanDocUrls(u) :
              DownloadEdges(graph, u, d) = OkFetches(u) * Occurrences(u, d)

\* a failed URL was followed by a page with two document links, which gave
\* three nodes, two download edges and two document routes
C13_Witness ==
    /\ pc = "done"
    /\ Len(fetchlog) = 2
    /\ ~fetchlog[1].ok
    /\ fetchlog[2].ok
    /\ Cardinality(ScanDocUrls(fetchlog[2].url)) = 2
    /\ Len(graph.nodes) = 3
    /\ Len(graph.edges) = 2
    /\ Len(graph.known_routes.documents) = 2

-----------------------------------------------------------------------------
(* discover_site followed by register_report_route calls of the caller *)

\* the routes the caller registers on the returned graph
FoundRouteArgs == {<<"reports", D2>>, <<"documents", D3>>, <<"documents", D2>>}

\* graph.register_report_route(ty, u) on the graph discover_site returned
DRegister ==
    /\ pc = "done"
    /\ RouteCount(graph) < RouteCount(runs[Len(runs)].graph) + MaxRoutes
    /\ \E r \in FoundRouteArgs :
          /\ graph' = register_report_route(graph, r[1], r[2])
          /\ ret' = Called("register_report_route", r[2], NoneUrl, <<r[1]>>)
    /\ UNCHANGED <<disk, clock, seed>>
    /\ UNCHANGED dvars
    /\ UNCHANGED rvars

NextRoutes == RunStep \/ DRegister

SpecRoutes == InitDiscover /\ [][NextRoutes]_vars

NodesOfType(g, types) ==
    {g.nodes[i].node.url : i \in {j \in DOMAIN g.nodes : g.nodes[j].node.node_type \in types}}

NoRepeat(list) == Len(list) = Cardinality(Range(list))

\* C14: the graph a run returns lists under "reports" exactly its Listing
\* nodes and under "documents" exactly its Document nodes, and no route list
\* ever holds a URL twice, whatever is registered afterwards.
C14_RoutesMatchNodesNoRepeats ==
    /\ \A k \in DOMAIN runs :
          /\ Range(runs[k].graph.known_routes.reports)
                = NodesOfType(runs[k].graph, {"LISTING"})
          /\ Range(runs[k].graph.known_routes.documents)
                = NodesOfType(runs[k].graph, {"DOCUMENT"})
          /\ runs[k].graph.known_routes.insights = <<>>
    /\ \A ty \in DOMAIN graph.known_routes : NoRepeat(graph.known_routes[ty])

\* a run registered a route, the caller registered the same route again and
\* the list is as the run returned it
C14_Witness ==
    /\ pc = "done"
    /\ ret.op = "register_report_route"
    /\ ret.a \in Range(runs[1].graph.known_routes[ret.val[1]])
    /\ graph.known_routes[ret.val[1]] = runs[1].graph.known_routes[ret.val[1]]
    /\ RouteCount(graph) > RouteCount(runs[1].graph)

-----------------------------------------------------------------------------
(* SiteGraph.find_reports, find_reports_by_topic *)

NodeValues(g) == [i \in DOMAIN g.nodes |-> g.nodes[i].node]

find_reports(g) ==
    SelectSeq(NodeValues(g), LAMBDA node : node.node_type \in {"REPORT_PAGE", "DOCUMENT"})

\* find_reports_by_topic filtering on the topic alone
find_reports_by_topic_any_type(g, topic) ==
    SelectSeq(NodeValues(g), LAMBDA node : topic \in Range(node.topics))

find_reports_by_topic(g, topic) ==
    SelectSeq(NodeValues(g),
              LAMBDA node : /\ node.node_type \in {"REPORT_PAGE", "DOCUMENT"}
                            /\ topic \in Range(node.topics))

\* the topics a caller asks for
TopicArgs == {"AI", "Cloud", "ESG", "Quantum"}

\* graph.find_reports(); graph.find_reports_by_topic(t)
GFindReports ==
    /\ \E t \in TopicArgs :
          ret' = Called("find_reports", NoneUrl, NoneUrl,
                        <<t, find_reports(graph), find_reports_by_topic(graph, t)>>)
    /\ UNCHANGED <<graph, disk, clock, seed>>
    /\ UNCHANGED dvars
    /\ UNCHANGED rvars

NextReports == GAddNode \/ GAddDownloadEdge \/ GFindReports

SpecReports == InitGraph /\ [][NextReports]_vars

\* C15: find_reports_by_topic(t) is find_reports() restricted to the nodes
\* whose topics contain t; find_reports() is the ReportPage and Document nodes
\* of the graph, so neither holds a node of another type.
C15_ByTopicIsSubsetOfReports ==
    ret.op = "find_reports" =>
        /\ ret.val[3] = SelectSeq(ret.val[2], LAMBDA node : ret.val[1] \in Range(node.topics))
        /\ Range(ret.val[2])
              = {get_node(graph, u) : u \in NodesOfType(graph, {"REPORT_PAGE", "DOCUMENT"})}
        /\ \A node \in Range(ret.val[2]) \cup Range(ret.val[3]) :
              node.node_type \notin {"SECTION", "HOME", "LISTING", "UNKNOWN"}

\* a listing carries the topic asked for and is not returned, a document of
\* another topic is a report, and adjacency names a URL that has no node
C15_Witness ==
    /\ ret.op = "find_reports"
    /\ Len(ret.val[2]) = 1
    /\ ret.val[3] = <<>>
    /\ \E i \in DOMAIN graph.nodes :
          /\ graph.nodes[i].node.node_type = "LISTING"
          /\ ret.val[1] \in Range(graph.nodes[i].node.topics)
    /\ DOMAIN graph.adjacency \ NodeUrls(graph) # {}

-----------------------------------------------------------------------------
(* SiteGraph.get_route_to_reports *)

RECURSIVE route_topics_first_found(_, _, _, _)
\* route_topics keeping the first path found for a topic
route_topics_first_found(topics, i, path, routes) ==
    IF i > Len(topics) THEN routes
    ELSE IF topics[i] \notin DOMAIN routes
    THEN route_topics_first_found(topics, i + 1, path, routes @@ (topics[i] :> path))
    ELSE route_topics_first_found(topics, i + 1, path, routes)

RECURSIVE route_topics(_, _, _, _)
\* for topic in node.topics: the path is kept when the topic is new or the
\* path is shorter
route_topics(topics, i, path, routes) ==
    IF i > Len(topics) THEN routes
    ELSE IF topics[i] \notin DOMAIN routes
    THEN route_topics(topics, i + 1, path, routes @@ (topics[i] :> path))
    ELSE IF Len(path) < Len(routes[topics[i]])
    THEN route_topics(topics, i + 1, path, [routes EXCEPT ![topics[i]] = path])
    ELSE route_topics(topics, i + 1, path, routes)

RECURSIVE route_reports(_, _, _, _, _)
\* for node in self.find_reports()
route_reports(g, reports, i, homepage, routes) ==
    IF i > Len(reports) THEN routes
    ELSE LET path == find_path(g, homepage, reports[i].url)
         IN  IF path # <<>>
             THEN route_reports(g, reports, i + 1, homepage,
                                route_topics(reports[i].topics, 1, path, routes))
             ELSE route_reports(g, reports, i + 1, homepage, routes)

\* the homepage get_route_to_reports starts from; NoneUrl on an empty graph
route_homepage(g) ==
    IF g.base_url \in NodeUrls(g) THEN g.base_url
    ELSE IF g.nodes # <<>> THEN g.nodes[1].key
    ELSE NoneUrl

get_route_to_reports(g) ==
    IF g.base_url \notin NodeUrls(g) /\ g.nodes = <<>> THEN <<>>
    ELSE route_reports(g, find_reports(g), 1, route_homepage(g), <<>>)

\* the graph as constructed, or after the caller added its home page
InitHomeGraph ==
    /\ \E home \in BOOLEAN :
          graph = IF home
                  THEN add_node(SiteGraph("site", UA, 1),
                                GraphNode(UA, "HOME", "Home", <<>>, 0, NoneUrl,
                                          0, 0, 0, NoneUrl, 1), 1)
                  ELSE SiteGraph("site", UA, 1)
    /\ disk = <<>>
    /\ ret = NoRet
    /\ clock = 2
    /\ \E k \in {0, 1} :
          seed = [urls |-> IF k = 0 THEN GraphUrls ELSE Reverse(GraphUrls),
                  topics |-> IF k = 0 THEN AllTopics ELSE Reverse(AllTopics)]
    /\ IdleRun
    /\ IdleRegistry

\* graph.get_route_to_reports()
GRouteToReports ==
    /\ ret' = Called("get_route_to_reports", route_homepage(graph), NoneUrl,
                     get_route_to_reports(graph))
    /\ UNCHANGED <<graph, disk, clock, seed>>
    /\ UNCHANGED dvars
    /\ UNCHANGED rvars

NextBestRoutes == GAddNode \/ GAddEdge \/ GRouteToReports

SpecBestRoutes == InitHomeGraph /\ [][NextBestRoutes]_vars

\* the report and document nodes carrying topic t that adjacency reaches from h
ReachedReports(g, h, t) ==
    {n \in Range(find_reports(g)) : t \in Range(n.topics) /\ Reachable(g, h, n.url)}

IsPath(g, p) == \A i \in 1 .. Len(p) - 1 : p[i + 1] \in AdjGet(g, p[i])

\* C16: get_route_to_reports starts from base_url when it is a node and from
\* an existing node otherwise; its keys are the topics carried by a report or
\* document node reachable from there, each with a path from the homepage to
\* such a node that is as short as the shortest way to any of them; an empty
\* graph gives an empty result.
C16_ShortestRoutePerTopic ==
    ret.op = "get_route_to_reports" =>
        LET h == ret.a
            routes == ret.val
        IN  /\ graph.nodes = <<>> => routes = <<>>
            /\ graph.nodes # <<>> =>
                  /\ h \in NodeUrls(graph)
                  /\ graph.base_url \in NodeUrls(graph) => h = graph.base_url
            /\ DOMAIN routes = {t \in Range(AllTopics) : ReachedReports(graph, h, t) # {}}
            /\ \A t \in DOMAIN routes :
                  /\ routes[t][1] = h
                  /\ IsPath(graph, routes[t])
                  /\ \E n \in ReachedReports(graph, h, t) : routes[t][Len(routes[t])] = n.url
                  /\ \A n \in ReachedReports(graph, h, t) :
                        Len(routes[t]) - 1 <= Dist(graph, h, n.url)

\* a topic is carried by two reachable reports and the route leads to the
\* one added later, which is nearer
C16_Witness ==
    /\ ret.op = "get_route_to_reports"
    /\ \E t \in DOMAIN ret.val :
          LET first == find_reports(graph)[1]
          IN  /\ Len(find_reports(graph)) = 2
              /\ t \in Range(first.topics)
              /\ Reachable(graph, ret.a, first.url)
              /\ ret.val[t][Len(ret.val[t])] # first.url
              /\ Len(ret.val[t]) - 1 < Dist(graph, ret.a, first.url)

-----------------------------------------------------------------------------
(* SiteGraphRegistry.  graphs is the dict key -> SiteGraph as the sequence  *)
(* of its items in insertion order.  files is the storage directory: the    *)
(* function file stem -> content, a content being the document that was     *)
(* dumped, the keys that are missing from it and the number of chunks of it *)
(* that are on disk.  faulty holds the opens that fail: a stem and a mode.  *)

WriteChunks == 2    \* writes json.dump makes for one document

\* the names callers pass to the registry
SiteNames == {"Acme", "acme", "Beta"}

\* str.lower()
lower(name) ==
    CASE name = "Acme" -> "acme"
      [] name = "Beta" -> "beta"
      [] OTHER -> name

Slugs == {lower(n) : n \in SiteNames}

SiteBase == Url(HostE, <<>>, TRUE)

File(doc) == [doc |-> doc, missing |-> {}, written |-> WriteChunks]

\* keys a document in the directory may lack
MissingKeys ==
    {"edges", "known_routes", "site_topics", "last_updated",
     "node.node_type", "node.title"}

\* json.load, data['site_name'], data['base_url'], data['nodes'],
\* data['edges'] and, for each node, NodeType(data['node_type']) raise
load_raises(file) ==
    \/ file.written < WriteChunks
    \/ file.missing \cap {"site_name", "base_url", "nodes", "edges"} # {}
    \/ file.doc.nodes # <<>> /\ file.missing \cap {"node.url", "node.node_type"} # {}

\* what load reads from a document: data.get(key, default) for known_routes,
\* site_topics, created_at and last_updated, and the defaults of GraphNode
\* for the fields a node's dict does not carry
data_get(file) ==
    [file.doc EXCEPT
        !.known_routes = IF "known_routes" \in file.missing THEN <<>> ELSE @,
        !.site_topics = IF "site_topics" \in file.missing THEN <<>> ELSE @,
        !.created_at = IF "created_at" \in file.missing THEN 0 ELSE @,
        !.last_updated = IF "last_updated" \in file.missing THEN 0 ELSE @,
        !.nodes = [i \in DOMAIN @ |->
                     IF "node.title" \in file.missing
                     THEN [@[i] EXCEPT !.node.title = ""]
                     ELSE @[i]]]

\* SiteGraph.load(filepath) on a file that it can read
load_file(file, now) == load(data_get(file), now)

GraphKeys(gs) == {gs[i].key : i \in DOMAIN gs}

\* self.graphs[key]
GraphsGet(gs, key) == gs[CHOOSE i \in DOMAIN gs : gs[i].key = key].node

\* get_graph(site_name): self.graphs.get(site_name.lower())
get_graph(gs, site_name) ==
    IF lower(site_name) \in GraphKeys(gs) THEN <<GraphsGet(gs, lower(site_name))>>
    ELSE <<>>

\* whether open(filepath, mode) fails
open_raises(stem, mode) == [stem |-> stem, mode |-> mode] \in faulty

RECURSIVE load_all_graphs(_, _, _, _)
\* _load_all_graphs over the files in the order glob yields them: a file
\* whose load raises is logged and skipped
load_all_graphs(stems, i, gs, now) ==
    IF i > Len(stems) THEN gs
    ELSE IF open_raises(stems[i], "r") \/ load_raises(files[stems[i]])
         THEN load_all_graphs(stems, i + 1, gs, now)
         ELSE LET g == load_file(files[stems[i]], now)
              IN  load_all_graphs(stems, i + 1, DictSet(gs, lower(g.site_name), g), now)

\* the stems of the directory in the order glob yields them
GlobOrders == {<<"acme", "beta">>, <<"beta", "acme">>}

glob(order) == SelectSeq(order, LAMBDA x : x \in DOMAIN files)

RECURSIVE save_keys(_, _, _)
\* save_graph(key) for the keys in turn, up to the first one whose save
\* raises: the files after the saves that were made
save_keys(gs, i, fs) ==
    IF i > Len(gs) \/ open_raises(gs[i].key, "w") THEN fs
    ELSE save_keys(gs, i + 1,
                   [k \in DOMAIN fs \cup {gs[i].key} |->
                       IF k = gs[i].key THEN File(save_doc(gs[i].node)) ELSE fs[k]])

\* whether save_all raises
save_all_raises(gs) == \E i \in DOMAIN gs : open_raises(gs[i].key, "w")

\* a graph an earlier process discovered and saved
StoredGraph(name) ==
    LET home == GraphNode(UA, "HOME", "Home", <<>>, 0, NoneUrl, 0, 0, 0, NoneUrl, 1)
        page == GraphNode(UB, "REPORT_PAGE", "R1", <<"AI">>, 1, UA, 0, 0, 0, NoneUrl, 1)
    IN  add_edge(add_node(add_node(SiteGraph(name, SiteBase, 1), home, 1), page, 1),
                 UA, UB, "R1", "link")

StoredName(stem) == IF stem = "acme" THEN "Acme" ELSE "Beta"

\* the contents a file of the directory may have when the process starts
StoredFiles(stem) ==
    {[doc |-> save_doc(StoredGraph(StoredName(stem))), missing |-> m,
      written |-> WriteChunks] : m \in {{}} \cup {{k} : k \in MissingKeys}}

RegistryCall(op, name, val) == [Called(op, NoneUrl, NoneUrl, val) EXCEPT !.node = <<name>>]

InitRegistry ==
    /\ graph = SiteGraph("site", SiteBase, 1)
    /\ disk = <<>>
    /\ ret = NoRet
    /\ clock = 2
    /\ seed = [urls |-> GraphUrls, topics |-> AllTopics]
    /\ IdleRun
    /\ graphs = <<>>
    /\ \E S \in SUBSET Slugs :
          files \in [S -> UNION {StoredFiles(k) : k \in S}]
    /\ \A k \in DOMAIN files : files[k] \in StoredFiles(k)
    /\ faulty \in {{}} \cup {{[stem |-> k, mode |-> m]} : k \in Slugs, m \in {"r", "w"}}
    /\ writer = <<>>

\* registry = SiteGraphRegistry(storage_dir)
RConstruct ==
    /\ \E order \in GlobOrders :
          graphs' = load_all_graphs(glob(order), 1, <<>>, clock)
    /\ pc' = "registry"
    /\ ret' = RegistryCall("SiteGraphRegistry", "", <<>>)
    /\ UNCHANGED <<graph, disk, clock, seed>>
    /\ UNCHANGED <<web, args, base_url, queue, visited, pages_visited, fetchlog, runs>>
    /\ UNCHANGED <<files, faulty, writer>>

\* graph = registry.register_site(site_name, base_url)
RRegister ==
    /\ pc = "registry"
    /\ \E name \in SiteNames :
          LET key == lower(name)
              g == SiteGraph(name, SiteBase, clock)
          IN  IF key \in GraphKeys(graphs)
              THEN /\ ret' = RegistryCall("register_site", name, <<GraphsGet(graphs, key)>>)
                   /\ UNCHANGED <<graphs, files>>
              ELSE /\ graphs' = DictSet(graphs, key, g)
                   /\ IF open_raises(key, "w")
                      THEN /\ ret' = RegistryCall("register_site raised", name, <<>>)
                           /\ UNCHANGED files
                      ELSE /\ ret' = RegistryCall("register_site", name, <<g>>)
                           /\ files' = save_keys(<<[key |-> key, node |-> g]>>, 1, files)
    /\ UNCHANGED <<graph, disk, clock, seed>>
    /\ UNCHANGED dvars
    /\ UNCHANGED <<faulty, writer>>

\* registry.get_graph(site_name).add_node(node): a discovery filling a graph
RAddNode ==
    /\ pc = "registry"
    /\ \E i \in DOMAIN graphs :
          LET node == GraphNode(UC, "DOCUMENT", "", <<"ESG">>, 2, UB, 0, 0, 0, NoneUrl, clock)
          IN  /\ UC \notin NodeUrls(graphs[i].node)
              /\ graphs' = [graphs EXCEPT ![i].node = add_node(@, node, clock)]
    /\ ret' = NoRet
    /\ UNCHANGED <<graph, disk, clock, seed>>
    /\ UNCHANGED dvars
    /\ UNCHANGED <<files, faulty, writer>>

\* registry.save_graph(site_name)
RSaveGraph ==
    /\ pc = "registry"
    /\ \E name \in SiteNames :
          LET key == lower(name)
          IN  IF key \notin GraphKeys(graphs)
              THEN /\ ret' = RegistryCall("save_graph", name, <<>>)
                   /\ UNCHANGED files
              ELSE IF open_raises(key, "w")
              THEN /\ ret' = RegistryCall("save_graph raised", name, <<>>)
                   /\ UNCHANGED files
              ELSE /\ ret' = RegistryCall("save_graph", name, <<>>)
                   /\ files' = save_keys(<<[key |-> key, node |-> GraphsGet(graphs, key)]>>,
                                         1, files)
    /\ UNCHANGED <<graph, disk, clock, seed>>
    /\ UNCHANGED dvars
    /\ UNCHANGED <<graphs, faulty, writer>>

\* registry.save_all()
RSaveAll ==
    /\ pc = "registry"
    /\ files' = save_keys(graphs, 1, files)
    /\ ret' = RegistryCall(IF save_all_raises(graphs) THEN "save_all raised" ELSE "save_all",
                           "", <<>>)
    /\ UNCHANGED <<graph, disk, clock, seed>>
    /\ UNCHANGED dvars
    /\ UNCHANGED <<graphs, faulty, writer>>

NextRegistry == RConstruct \/ RRegister \/ RAddNode \/ RSaveGraph \/ RSaveAll

SpecRegistry == InitRegistry /\ [][NextRegistry]_vars

-----------------------------------------------------------------------------
(* register_site *)

\* C17: when register_site(name, base_url) returns, get_graph(name) returns
\* the graph it returned and the storage directory holds a document for the
\* slug of the name.
C17_RegisterPersists ==
    ret.op = "register_site" =>
        /\ get_graph(graphs, ret.node[1]) = ret.val
        /\ lower(ret.node[1]) \in DOMAIN files

-----------------------------------------------------------------------------
(* A file that cannot be opened: construction and save_all *)

\* the constructor returned although a file of the directory failed to open
ConstructedOverFailure ==
    /\ ret.op = "SiteGraphRegistry"
    /\ \E k \in DOMAIN files : open_raises(k, "r")

\* save_all left a graph unsaved whose own file can be written
SaveAllLeftOut ==
    /\ ret.op \in {"save_all", "save_all raised"}
    /\ \E i \in DOMAIN graphs :
          /\ ~open_raises(graphs[i].key, "w")
          /\ \/ graphs[i].key \notin DOMAIN files
             \/ files[graphs[i].key] # File(save_doc(graphs[i].node))

\* C18: a file that cannot be opened fails its own site only.  The
\* constructor loads every other file and does not return normally; save_all
\* saves every other graph and raises.
C18_FailureIsolatedAndPropagated ==
    /\ ret.op = "SiteGraphRegistry" =>
          \A k \in DOMAIN files :
              ~open_raises(k, "r") /\ ~load_raises(files[k]) => k \in GraphKeys(graphs)
    /\ ~ConstructedOverFailure
    /\ ~SaveAllLeftOut
    /\ ret.op = "save_all" => ~save_all_raises(graphs)

-----------------------------------------------------------------------------
(* Malformed documents *)

\* a document lacking a top-level key or a node field, or cut short
Malformed(file) == file.missing # {} \/ file.written < WriteChunks

\* C19: a malformed document is never loaded.  After the registry was
\* constructed, no graph is held for a file that lacks a key or a node field.
C19_MalformedNeverLoaded ==
    ret.op = "SiteGraphRegistry" =>
        \A k \in DOMAIN files :
            Malformed(files[k]) /\ ~open_raises(k, "r") => k \notin GraphKeys(graphs)

-----------------------------------------------------------------------------
(* SiteGraph.save step by step, with an external reader of the file.  save  *)
(* opens the file for writing, which empties it, json.dump writes the       *)
(* document chunk by chunk, and leaving the with block closes the file.     *)
(* writer is the save in progress: the document it dumps and the content    *)
(* the file had before.                                                     *)

SiteFile == "site"

InitSave ==
    /\ graph = SiteGraph("site", SiteBase, 1)
    /\ disk = <<>>
    /\ ret = NoRet
    /\ clock = 2
    /\ \E k \in {0, 1} :
          seed = [urls |-> IF k = 0 THEN GraphUrls ELSE Reverse(GraphUrls),
                  topics |-> IF k = 0 THEN AllTopics ELSE Reverse(AllTopics)]
    /\ IdleRun
    /\ IdleRegistry

\* the saving process between two saves: graph.add_node(node)
WAddNode ==
    /\ writer = <<>>
    /\ GAddNode

\* data = {...}; open(filepath, 'w', encoding='utf-8')
WOpen ==
    /\ writer = <<>>
    /\ writer' = <<[doc |-> save_doc(graph),
                    prev |-> IF SiteFile \in DOMAIN files THEN <<files[SiteFile]>> ELSE <<>>]>>
    /\ files' = (SiteFile :> [doc |-> save_doc(graph), missing |-> {}, written |-> 0])
    /\ ret' = NoRet
    /\ UNCHANGED <<graph, disk, clock, seed>>
    /\ UNCHANGED dvars
    /\ UNCHANGED <<graphs, faulty>>

\* json.dump(data, f, ...): one more chunk reaches the file
WWrite ==
    /\ writer # <<>>
    /\ files[SiteFile].written < WriteChunks
    /\ files' = [files EXCEPT ![SiteFile].written = @ + 1]
    /\ ret' = NoRet
    /\ UNCHANGED <<graph, disk, clock, seed>>
    /\ UNCHANGED dvars
    /\ UNCHANGED <<graphs, faulty, writer>>

\* the with block is left: the file is closed and save returns
WClose ==
    /\ writer # <<>>
    /\ files[SiteFile].written = WriteChunks
    /\ writer' = <<>>
    /\ ret' = NoRet
    /\ UNCHANGED <<graph, disk, clock, seed>>
    /\ UNCHANGED dvars
    /\ UNCHANGED <<graphs, files, faulty>>

\* an external consumer reads the file
XRead ==
    /\ SiteFile \in DOMAIN files
    /\ ret' = Called("read", NoneUrl, NoneUrl, <<files[SiteFile]>>)
    /\ UNCHANGED <<graph, disk, clock, seed>>
    /\ UNCHANGED dvars
    /\ UNCHANGED rvars

NextSave == WAddNode \/ WOpen \/ WWrite \/ WClose \/ XRead

SpecSave == InitSave /\ [][NextSave]_vars

\* C20: whatever a reader reads from the file is a complete document: the
\* one of the save in progress or the one the file held before it, never an
\* empty or partly written file.
C20_ReadersSeeCompleteSnapshots ==
    ret.op = "read" =>
        /\ ret.val[1].written = WriteChunks
        /\ writer # <<>> =>
              \/ ret.val[1] = File(writer[1].doc)
              \/ ret.val = writer[1].prev

-----------------------------------------------------------------------------
(* The keys of the persisted document *)

\* the top-level keys of the document contract
ContractKeys ==
    {"site_name", "base_url", "nodes", "edges", "known_routes", "site_topics",
     "created_at", "updated_at"}

\* C21: the document save() wrote has exactly the top-level keys site_name,
\* base_url, nodes, edges, known_routes, site_topics, created_at and
\* updated_at, its nodes are keyed by the URL of the node and its edges are
\* the edge list in order.
C21_DocumentKeys ==
    disk # <<>> =>
        /\ DOMAIN disk[1] = ContractKeys
        /\ \A i \in DOMAIN disk[1].nodes : disk[1].nodes[i].key = disk[1].nodes[i].node.url

-----------------------------------------------------------------------------
(* discover_site called again with the graph of the run before              *)

\* lines 93-105 with existing_graph given: graph = existing_graph
DAgainExisting ==
    /\ pc = "done"
    /\ Len(runs) < MaxRuns
    /\ base_url' = get_base_url(args.start_url)
    /\ queue' = <<Entry(args.start_url, 0, NoneUrl)>>
    /\ visited' = {}
    /\ pages_visited' = 0
    /\ fetchlog' = <<>>
    /\ pc' = "loop"
    /\ UNCHANGED <<graph, disk, ret, clock, seed>>
    /\ UNCHANGED <<web, args, runs>>
    /\ UNCHANGED rvars

NextRevisit == RunStep \/ DAgainExisting

SpecRevisit == InitDiscover /\ [][NextRevisit]_vars

\* C22: a step of discover_site on an existing graph removes no node, and a
\* node it writes again is the node updated: its visit_count is one more,
\* its last_visited is not earlier and its discovered_at is kept.
C22_RevisitUpdatesNode ==
    [][pc = "loop" =>
         \A u \in NodeUrls(graph) :
             /\ u \in NodeUrls(graph')
             /\ get_node(graph', u) # get_node(graph, u) =>
                   /\ get_node(graph', u).visit_count = get_node(graph, u).visit_count + 1
                   /\ get_node(graph', u).last_visited >= get_node(graph, u).last_visited
                   /\ get_node(graph', u).discovered_at = get_node(graph, u).discovered_at]_vars

-----------------------------------------------------------------------------
(* discover_site: the visited set, the order of the frontier, the edges     *)

\* C23: within one run no URL is fetched twice, whether its fetch succeeded
\* or failed; every fetched URL is in canonical form and in the visited set,
\* and the visited set holds the fetched URLs only.
C23_FetchedAtMostOnce ==
    /\ \A i, j \in DOMAIN fetchlog : i # j => fetchlog[i].url # fetchlog[j].url
    /\ \A i \in DOMAIN fetchlog :
          /\ fetchlog[i].url \in visited
          /\ strip_fragment_query(fetchlog[i].url) = fetchlog[i].url
    /\ visited = {fetchlog[i].url : i \in DOMAIN fetchlog}

\* a URL whose fetch failed was put on the queue twice; the run went through
\* the whole queue within its budget and fetched it once
C23_Witness ==
    /\ pc = "done"
    /\ queue = <<>>
    /\ Len(fetchlog) < args.max_pages
    /\ \E i \in DOMAIN fetchlog :
          /\ ~fetchlog[i].ok
          /\ fetchlog[i].depth <= args.max_depth
          /\ Cardinality({k \in DOMAIN graph.edges :
                             graph.edges[k].to_url = fetchlog[i].url}) >= 2

\* C24: the URLs of a run are fetched in non-decreasing depth order, the
\* queue is in non-decreasing depth order, and among the queue entries that
\* come from one page no generic link stands before a link that matches a
\* report or document pattern.
C24_FifoDepthOrder ==
    /\ \A i, j \in DOMAIN fetchlog : i < j => fetchlog[i].depth <= fetchlog[j].depth
    /\ \A i, j \in DOMAIN queue :
          i < j =>
             /\ queue[i].depth <= queue[j].depth
             /\ (queue[i].parent_url = queue[j].parent_url /\ is_interesting(queue[j].url))
                   => is_interesting(queue[i].url)
    /\ \A i \in DOMAIN fetchlog, j \in DOMAIN queue :
          pc = "loop" => fetchlog[i].depth <= queue[j].depth

\* a page below the start page lists a generic link first; its report link
\* stands in the queue ahead of that generic link
C24_Witness ==
    /\ pc = "loop"
    /\ Len(fetchlog) >= 2
    /\ \E i, j \in DOMAIN queue :
          /\ i < j
          /\ queue[i].parent_url = queue[j].parent_url
          /\ queue[i].depth = 2
          /\ is_interesting(queue[i].url)
          /\ ~is_interesting(queue[j].url)
          /\ web[queue[i].parent_url] # <<>>
          /\ web[queue[i].parent_url][1].hrefs[1].href = queue[j].url

-----------------------------------------------------------------------------
(* adjacency and the edge list; site_topics and the nodes *)

EdgePairs(g) == {<<g.edges[i].from_url, g.edges[i].to_url>> : i \in DOMAIN g.edges}

AdjPairs(g) == UNION {{<<f, t>> : t \in g.adjacency[f]} : f \in DOMAIN g.adjacency}

\* C25: after every add_node, add_edge and load, t is in adjacency[f] exactly
\* when the edge list holds an edge (f, t); a call that adds an edge appends
\* exactly one, and when its pair was in the list already adjacency is as it
\* was.
C25_AdjacencyDerivedFromEdges ==
    [][/\ AdjPairs(graph') = EdgePairs(graph')
       /\ graph'.edges # graph.edges /\ ret'.op # "load" =>
             /\ Len(graph'.edges) = Len(graph.edges) + 1
             /\ SubSeq(graph'.edges, 1, Len(graph.edges)) = graph.edges
             /\ EdgePairs(graph') = EdgePairs(graph) => graph'.adjacency = graph.adjacency]_vars

\* a graph whose edge list holds the same pair twice was loaded; adjacency
\* holds the pair once
C25_Witness ==
    /\ ret.op = "load"
    /\ Len(graph.edges) = 2
    /\ graph.edges[1].from_url = graph.edges[2].from_url
    /\ graph.edges[1].to_url = graph.edges[2].to_url
    /\ graph.adjacency[graph.edges[1].from_url] = {graph.edges[1].to_url}
    /\ graph.nodes # <<>>

NodeTopics(g) == UNION {Range(g.nodes[i].node.topics) : i \in DOMAIN g.nodes}

\* C26: site_topics is the union of the topics of the nodes the graph holds:
\* it has no topic that no node carries and every topic a node carries.
C26_SiteTopicsIsUnionOfNodeTopics == graph.site_topics = NodeTopics(graph)

-----------------------------------------------------------------------------
(* _classify_page applied to the URLs and pages of a bounded universe *)

\* the URLs _classify_page is called with
ClassifyUrls ==
    {Url(h, segs, slash) :
        h \in {HostE, HostWww},
        segs \in {<<>>, <<Seg("en", "")>>, <<Seg("about", "")>>, <<Seg("insights", "")>>,
                  <<Seg("insights", ""), Seg("r1", "")>>,
                  <<Seg("reports", ""), Seg("a", "pdf")>>,
                  <<Seg("docs", ""), Seg("a", "pdf")>>},
        slash \in BOOLEAN}

\* the pages it is called with
ClassifyPages == Pages \cup {Page("Three", <<Link(D3, "PDF")>>, 3, {"cloud"})}

\* node = self._classify_page(url, page_data, depth, parent_url)
GClassify ==
    /\ \E u \in ClassifyUrls, p \in ClassifyPages :
          LET c == classify_page(u, p, 1, NoneUrl, clock)
          IN  ret' = IF c.raised
                     THEN Called("classify_page raised", u, NoneUrl, <<>>)
                     ELSE [Called("classify_page", u, NoneUrl, <<p.articles>>)
                              EXCEPT !.node = <<c.node>>]
    /\ UNCHANGED <<graph, disk, clock, seed>>
    /\ UNCHANGED dvars
    /\ UNCHANGED rvars

SpecClassify == InitGraph /\ [][GClassify]_vars

\* the path of the URL is '/', '', '/en', '/us' or '/en-us'
RootLike(url) ==
    \/ url.segs = <<>>
    \/ ~url.slash /\ Len(url.segs) = 1 /\ url.segs[1].ext = ""
          /\ url.segs[1].stem \in {"en", "us", "en-us"}

\* C27: the node _classify_page returns has one type, by first match: a
\* document extension gives DOCUMENT, also when the URL matches a report
\* pattern; else a report pattern gives LISTING for more than 3 article
\* blocks and REPORT_PAGE otherwise; else a root-like path gives HOME; else
\* SECTION.  The type is never UNKNOWN.
C27_ClassifyByFirstMatch ==
    ret.op = "classify_page" =>
        LET url == ret.a
            type == ret.node[1].node_type
            doc == matches_document(url)
            report == ~doc /\ matches_report(url)
            home == ~doc /\ ~report /\ RootLike(url)
        IN  /\ type # "UNKNOWN"
            /\ type = "DOCUMENT" <=> doc
            /\ type = "LISTING" <=> (report /\ ret.val[1] > 3)
            /\ type = "REPORT_PAGE" <=> (report /\ ret.val[1] <= 3)
            /\ type = "HOME" <=> home
            /\ type = "SECTION" <=> (~doc /\ ~report /\ ~home)

\* a URL with a document extension under a report path was classified
\* DOCUMENT on a page with more than 3 article blocks
C27_Witness ==
    /\ ret.op = "classify_page"
    /\ matches_document(ret.a)
    /\ matches_report(ret.a)
    /\ ret.val[1] > 3
    /\ ret.node[1].node_type = "DOCUMENT"

-----------------------------------------------------------------------------
(* discover_site: the direction of the edges, the depths, the budget *)

\* the place of a URL in the order of the fetches of the run, 0 when it was
\* not fetched
FetchIndex(url) ==
    IF \E i \in DOMAIN fetchlog : fetchlog[i].url = url
    THEN CHOOSE i \in DOMAIN fetchlog : fetchlog[i].url = url
    ELSE 0

\* C28: in a run that starts from an empty graph every edge leaves a URL
\* that was fetched successfully and points to a URL fetched later or not
\* at all; no edge is a self-loop and the edges form no cycle.
C28_EdgesPointForward ==
    /\ \A k \in DOMAIN graph.edges :
          LET f == FetchIndex(graph.edges[k].from_url)
              t == FetchIndex(graph.edges[k].to_url)
          IN  /\ f > 0
              /\ fetchlog[f].ok
              /\ t = 0 \/ t > f
              /\ graph.edges[k].from_url # graph.edges[k].to_url
    /\ \A u \in DOMAIN graph.adjacency : u \notin ReachFrom(graph, Successors(graph, {u}))

\* a page fetched after the start page links back to the start page; the
\* graph has edges for other links of that page but none to the start page
C28_Witness ==
    /\ pc = "done"
    /\ \E i \in DOMAIN fetchlog :
          /\ i > 1
          /\ fetchlog[i].ok
          /\ \E h \in DOMAIN web[fetchlog[i].url][1].hrefs :
                web[fetchlog[i].url][1].hrefs[h].href = fetchlog[1].url
          /\ \E k \in DOMAIN graph.edges :
                /\ graph.edges[k].from_url = fetchlog[i].url
                /\ graph.edges[k].link_text # ""
          /\ \A k \in DOMAIN graph.edges :
                graph.edges[k].from_url = fetchlog[i].url
                   => graph.edges[k].to_url # fetchlog[1].url

\* the node of the start URL
StartNodeUrl == normalize_url(args.start_url, base_url)

\* C29: when a run on a fresh graph has ended, the depth of every node is
\* its distance from the start node in adjacency, find_path from the start
\* node to it has depth + 1 elements, and every node but the start node has
\* a parent_url that is a node one level up with an edge to it.
C29_DepthIsDistanceFromStart ==
    pc = "done" =>
        \A i \in DOMAIN graph.nodes :
            LET n == graph.nodes[i].node
            IN  /\ StartNodeUrl \in NodeUrls(graph)
                /\ Dist(graph, StartNodeUrl, n.url) = n.depth
                /\ Len(find_path(graph, StartNodeUrl, n.url)) = n.depth + 1
                /\ n.url # StartNodeUrl =>
                      /\ n.parent_url \in NodeUrls(graph)
                      /\ get_node(graph, n.parent_url).depth = n.depth - 1
                      /\ <<n.parent_url, n.url>> \in EdgePairs(graph)

\* a node at depth 1 also has an edge from another node at depth 1, a
\* longer way from the start node
C29_Witness ==
    /\ pc = "done"
    /\ \E i, j \in DOMAIN graph.nodes :
          /\ graph.nodes[i].node.depth = 1
          /\ graph.nodes[j].node.depth = 1
          /\ i # j
          /\ <<graph.nodes[i].key, graph.nodes[j].key>> \in EdgePairs(graph)
          /\ graph.nodes[j].node.parent_url = StartNodeUrl

FailedFetches == Cardinality({i \in DOMAIN fetchlog : ~fetchlog[i].ok})

\* C30: the page counter of a run is the number of its fetches, failed ones
\* included, and never exceeds max_pages; with k failed fetches the graph of
\* a run on a fresh graph holds at most max_pages - k nodes.
C30_BudgetCountsFetchAttempts ==
    /\ pages_visited = Len(fetchlog)
    /\ pages_visited <= args.max_pages
    /\ Len(graph.nodes) + FailedFetches <= args.max_pages

\* the budget ended a run with entries left on the queue; one of its fetches
\* failed after a page had been recorded, and fewer nodes than max_pages
\* were recorded
C30_Witness ==
    /\ pc = "done"
    /\ queue # <<>>
    /\ Len(fetchlog) = args.max_pages
    /\ FailedFetches = 1
    /\ Len(graph.nodes) = args.max_pages - 1
    /\ Len(graph.nodes) >= 2
    /\ ~fetchlog[2].ok

====
